---------------------------- MODULE Spec2Model ----------------------------
(***************************************************************************)
(* The SIEM log receiver of src/siem/main/src/app.py: the TCP listener,    *)
(* the per-connection handler threads (handle_forwarder_connection), the   *)
(* shared list received_logs and the /api/logs query (get_logs).  Further  *)
(* down, the marker store of src/asset map/src/py/app.py and the mind map  *)
(* of src/mind-map-app/mind_map.py, each with its own specifications.      *)
(*                                                                         *)
(* Bytes and characters are strings: an ASCII byte and the character it    *)
(* decodes to are the same one-character string; "xC3" and "xA9" are the   *)
(* two bytes of the UTF-8 encoding of U+00E9, and "u00E9" is that          *)
(* character.  A JSON value is a pair <<tag, payload>>:                    *)
(*   <<"num", digits>>, <<"str", chars>>, <<"null", <<>>>>,                *)
(*   <<"arr", values>>, <<"obj", pairs>> with pairs a sequence of          *)
(*   <<key, value>> in insertion order (a Python dict).                    *)
(***************************************************************************)
EXTENDS Integers, Sequences, FiniteSets, TLC

(***************************************************************************)
(* Bounds of the model.                                                    *)
(***************************************************************************)
\* capacity of received_logs (app.py:15 sets 10000; scaled down)
MAX_LOGS == 2
\* lines each forwarder sends in the concurrent specification
MaxLines == 2
\* ticks of the wall clock
MaxClock == 1
\* lines the forwarder sends in the byte-stream specification
MaxStreamLines == 3
\* lines each forwarder sends in the stamping specification
MaxStampLines == 1

\* recv(4096), app.py:156
RecvSize == 4096

\* bytes of a short read in the listener specification
ChunkSize == 3

(***************************************************************************)
(* Sequence helpers.                                                       *)
(***************************************************************************)
Min(a, b) == IF a <= b THEN a ELSE b

Max(a, b) == IF a >= b THEN a ELSE b

\* s[from..] (1-based), empty when from > Len(s)
Drop(s, n) == SubSeq(s, n + 1, Len(s))

Take(s, n) == SubSeq(s, 1, Min(n, Len(s)))

\* position of the first x in s, 0 when absent
IndexOf(s, x) ==
  IF \E i \in 1..Len(s) : s[i] = x
  THEN CHOOSE i \in 1..Len(s) : s[i] = x /\ \A j \in 1..(i - 1) : s[j] # x
  ELSE 0

(***************************************************************************)
(* data.decode('utf-8', errors='ignore'), app.py:160, on the bytes of this *)
(* model: an ASCII byte decodes to itself, xC3 xA9 to U+00E9; a lead byte  *)
(* not followed by a continuation byte (also at the end of the data) and a *)
(* continuation byte without its lead byte are dropped.                    *)
(***************************************************************************)
RECURSIVE Utf8Decode(_)
Utf8Decode(bs) ==
  IF bs = <<>> THEN <<>>
  ELSE IF bs[1] = "xC3"
    THEN IF Len(bs) >= 2 /\ bs[2] = "xA9"
         THEN <<"u00E9">> \o Utf8Decode(Drop(bs, 2))
         ELSE Utf8Decode(Tail(bs))
  ELSE IF bs[1] = "xA9" THEN Utf8Decode(Tail(bs))
  ELSE <<bs[1]>> \o Utf8Decode(Tail(bs))

(***************************************************************************)
(* str.strip(), app.py:165: the only whitespace of the model's alphabet    *)
(* that can be inside a line is the space.                                 *)
(***************************************************************************)
RECURSIVE LStrip(_)
LStrip(s) == IF s # <<>> /\ s[1] = " " THEN LStrip(Tail(s)) ELSE s

RECURSIVE RStrip(_)
RStrip(s) ==
  IF s # <<>> /\ s[Len(s)] = " " THEN RStrip(SubSeq(s, 1, Len(s) - 1)) ELSE s

Strip(s) == RStrip(LStrip(s))

(***************************************************************************)
(* json.loads, app.py:169, on the alphabet                                 *)
(*   { } [ ] " : space 1-9 n u l a U+00E9                                  *)
(* (no comma, no backslash, no sign, no 0) and, inside string literals     *)
(* only, the other letters of the keys received_at and source.  A result   *)
(* is [ok, val, next]: ok = FALSE is json.JSONDecodeError.                 *)
(***************************************************************************)
Digits == {"1", "2", "3", "4", "5", "6", "7", "8", "9"}

JsonFail == [ok |-> FALSE, val |-> <<"null", <<>>>>, next |-> 0]

JsonOk(v, n) == [ok |-> TRUE, val |-> v, next |-> n]

\* the decoder's WHITESPACE.match(s, i).end()
RECURSIVE SkipWs(_, _)
SkipWs(s, i) == IF i <= Len(s) /\ s[i] = " " THEN SkipWs(s, i + 1) ELSE i

\* end of the run of digits that starts at i (NUMBER_RE)
RECURSIVE DigitsEnd(_, _)
DigitsEnd(s, i) ==
  IF i <= Len(s) /\ s[i] \in Digits THEN DigitsEnd(s, i + 1) ELSE i

\* scanstring: s[i] is the opening quote
ParseString(s, i) ==
  LET rest == Drop(s, i)
      q == IndexOf(rest, "\"")
  IN IF q = 0 THEN JsonFail
     ELSE JsonOk(<<"str", SubSeq(rest, 1, q - 1)>>, i + q + 1)

RECURSIVE ParseValue(_, _)
ParseValue(s, i) ==
  IF i > Len(s) THEN JsonFail
  ELSE IF s[i] = "\"" THEN ParseString(s, i)
  ELSE IF s[i] \in Digits
    THEN JsonOk(<<"num", SubSeq(s, i, DigitsEnd(s, i) - 1)>>, DigitsEnd(s, i))
  ELSE IF s[i] = "n"
    THEN IF i + 3 <= Len(s) /\ SubSeq(s, i, i + 3) = <<"n", "u", "l", "l">>
         THEN JsonOk(<<"null", <<>>>>, i + 4)
         ELSE JsonFail
  ELSE IF s[i] = "["
    THEN LET j == SkipWs(s, i + 1)
         IN IF j > Len(s) THEN JsonFail
            ELSE IF s[j] = "]" THEN JsonOk(<<"arr", <<>>>>, j + 1)
            ELSE LET v == ParseValue(s, j)
                     k == SkipWs(s, v.next)
                 IN IF ~v.ok \/ k > Len(s) THEN JsonFail
                    ELSE IF s[k] = "]" THEN JsonOk(<<"arr", <<v.val>>>>, k + 1)
                    ELSE JsonFail
  ELSE IF s[i] = "{"
    THEN LET j == SkipWs(s, i + 1)
         IN IF j > Len(s) THEN JsonFail
            ELSE IF s[j] = "}" THEN JsonOk(<<"obj", <<>>>>, j + 1)
            ELSE IF s[j] # "\"" THEN JsonFail
            ELSE LET key == ParseString(s, j)
                     c == SkipWs(s, key.next)
                 IN IF ~key.ok \/ c > Len(s) THEN JsonFail
                    ELSE IF s[c] # ":" THEN JsonFail
                    ELSE LET v == ParseValue(s, SkipWs(s, c + 1))
                             k == SkipWs(s, v.next)
                         IN IF ~v.ok \/ k > Len(s) THEN JsonFail
                            ELSE IF s[k] = "}"
                              THEN JsonOk(<<"obj", <<<<key.val[2], v.val>>>>>>, k + 1)
                            ELSE JsonFail
  ELSE JsonFail

\* JSONDecoder.decode: leading whitespace, one value, trailing whitespace, end
JsonLoads(s) ==
  LET v == ParseValue(s, SkipWs(s, 1))
  IN IF v.ok /\ SkipWs(s, v.next) = Len(s) + 1 THEN v ELSE JsonFail

(***************************************************************************)
(* log_entry[key] = value on a dict (app.py:170-171): an existing key      *)
(* keeps its position and gets the new value, a new key is added last.     *)
(***************************************************************************)
HasKey(pairs, key) == \E i \in 1..Len(pairs) : pairs[i][1] = key

DictSetDefault(pairs, key, value) == \* faulty variant: dict.setdefault
  IF HasKey(pairs, key) THEN pairs ELSE Append(pairs, <<key, value>>)

DictSet(pairs, key, value) ==
  IF HasKey(pairs, key)
  THEN [i \in 1..Len(pairs) |->
          IF pairs[i][1] = key THEN <<key, value>> ELSE pairs[i]]
  ELSE Append(pairs, <<key, value>>)

ReceivedAtKey == <<"r", "e", "c", "e", "i", "v", "e", "d", "_", "a", "t">>

SourceKey == <<"s", "o", "u", "r", "c", "e">>

(***************************************************************************)
(* The forwarders (the environment).  Connection c comes from the peer     *)
(* address PeerAddr[c].  The k-th line a forwarder sends carries the digit *)
(* k, so that every record of a connection is different from the others.   *)
(***************************************************************************)
PeerAddr ==
  << <<"1", "0", ".", "0", ".", "0", ".", "1">>,
     <<"1", "0", ".", "0", ".", "0", ".", "2">> >>

Conns == 1..Len(PeerAddr)

Digit(k) == <<"1", "2", "3", "4", "5", "6", "7", "8", "9">>[k]

\* {"a":k}
ObjLine(k) == <<"{", "\"", "a", "\"", ":", Digit(k), "}">>

\* {"<U+00E9>":k}, the key encoded in two bytes
UniLine(k) == <<"{", "\"", "xC3", "xA9", "\"", ":", Digit(k), "}">>

\* [k]
ArrLine(k) == <<"[", Digit(k), "]">>

NullLine == <<"n", "u", "l", "l">>

\* {k  (a syntax error)
BadLine(k) == <<"{", Digit(k)>>

BlankLine == <<" ">>

EmptyLine == <<>>

\* {"source":k} and {"received_at":k}: the forwarder's JSON already has one
\* of the receiver's keys
SrcLine(k) == <<"{", "\"">> \o SourceKey \o <<"\"", ":", Digit(k), "}">>

TimeLine(k) == <<"{", "\"">> \o ReceivedAtKey \o <<"\"", ":", Digit(k), "}">>

\* lines that decode to a JSON object
ValidLines(k) == {ObjLine(k), UniLine(k)}

\* lines that decode to JSON that is no object
NonObjectLines(k) == {ArrLine(k), NullLine}

AllLines(k) ==
  ValidLines(k) \cup NonObjectLines(k) \cup {BadLine(k), BlankLine}

(***************************************************************************)
(* State.                                                                  *)
(***************************************************************************)
VARIABLES
  received_logs,  \* app.py:14, the shared list of records, oldest first
  clock,          \* the wall clock datetime.now() reads
  pc,             \* per connection: where its handler thread is
  buffer,         \* per connection: the handler's local buffer (characters)
  log_entry,      \* per connection: the handler's local log_entry, stamped
                  \* (app.py:169-171) and not yet appended; <<>> otherwise
  net,            \* per connection: bytes sent and not yet returned by recv
  peerClosed,     \* per connection: the forwarder has closed its end
  sent,           \* history: the lines each forwarder has sent, in order
  appended,       \* history: every record ever appended, in append order
  q,              \* the /api/logs request in progress and its response
  listener,       \* where the log receiver thread is (start_log_receiver)
  http,           \* whether the main thread has reached app.run
  csv,            \* asset map: the file MARKERS_CSV, its data rows in order
  csv_lock,       \* asset map: the request whose call holds csv_lock, 0 when free
  req,            \* asset map: per request, the call in progress
  mind_map,           \* mind map: MindMapApp.mind_map, its nodes and connections
  selected_node_id,   \* mind map: the selected node, 0 for None
  connecting_mode,    \* mind map: whether the next click picks a node to connect
  connection_start_id,\* mind map: the first node of the connection, 0 for None
  created,            \* mind map: the number of node ids in use (uuid4 draws)
  plain               \* mind map, history: the session started without an
                      \* autosave file and has used neither New, Open
                      \* nor remove_connection

vars ==
  <<received_logs, clock, pc, buffer, log_entry, net, peerClosed, sent,
    appended, q, listener, http, csv, csv_lock, req,
    mind_map, selected_node_id, connecting_mode, connection_start_id, created,
    plain>>

connVars == <<pc, buffer, log_entry, net, peerClosed, sent>>

srvVars == <<listener, http>>

\* the receiver's variables (src/siem/main/src/app.py)
siemVars ==
  <<received_logs, clock, pc, buffer, log_entry, net, peerClosed, sent, appended, q,
    listener, http>>

\* the marker store's variables (src/asset map/src/py/app.py)
mkVars == <<csv, csv_lock, req>>

\* the mind map application's variables (src/mind-map-app/mind_map.py)
mmVars ==
  <<mind_map, selected_node_id, connecting_mode, connection_start_id, created,
    plain>>

\* the mind map application is not running: no map, no window
MindMapIdle ==
  /\ mind_map = [nodes |-> {}, connections |-> <<>>]
  /\ selected_node_id = 0
  /\ connecting_mode = FALSE
  /\ connection_start_id = 0
  /\ created = 0
  /\ plain = TRUE

\* the requests whose calls of the marker store's functions are followed
Callers == {1, 2}

\* Python's None (the JSON null of this model)
PyNone == <<"null", <<>>>>

\* a thread that is in no call of the marker store
ReqIdle ==
  [pc |-> "idle", op |-> "none", marker_id |-> 0, arg |-> PyNone,
   markers |-> <<>>, result |-> <<"pending", <<>>>>,
   \* history: the data rows of the file when the call was made
   before |-> <<>>]

\* no marker file yet, csv_lock free (asset map app.py:40), no call running
MarkersIdle ==
  /\ csv = [exists |-> FALSE, rows |-> <<>>]
  /\ csv_lock = 0
  /\ req = [t \in Callers |-> ReqIdle]

QIdle ==
  [pc |-> "idle", limit |-> 0, filter |-> <<>>, logs |-> <<>>,
   total |-> 0, returned |-> 0,
   \* history: the list, the number of appends and whether no handler was
   \* between its append and its eviction, when the window was sliced
   snap |-> <<>>, appendedAtSlice |-> 0, quiet |-> TRUE]

\* the state of the running process: the receiver thread has bound its port
\* and waits in accept (app.py:196-201), the main thread serves HTTP (228)
SiemInit ==
  /\ listener = "listening"
  /\ http = "serving"
  /\ received_logs = <<>>
  /\ clock = 0
  /\ pc = [c \in Conns |-> "none"]
  /\ buffer = [c \in Conns |-> <<>>]
  /\ log_entry = [c \in Conns |-> <<>>]
  /\ net = [c \in Conns |-> <<>>]
  /\ peerClosed = [c \in Conns |-> FALSE]
  /\ sent = [c \in Conns |-> <<>>]
  /\ appended = <<>>
  /\ q = QIdle

\* the receiver runs; the marker store and the mind map are separate
\* processes, not in a call and not yet used
Init == SiemInit /\ MarkersIdle /\ MindMapIdle

(***************************************************************************)
(* Startup, app.py:190-198, 209-228.  __main__ starts start_log_receiver   *)
(* in a daemon thread (217-218) and goes on to app.run (228); the two are  *)
(* not ordered.                                                            *)
(***************************************************************************)
\* the state once the receiver thread has been started (app.py:218)
InitStartup ==
  /\ listener = "starting"
  /\ http = "down"
  /\ received_logs = <<>>
  /\ clock = 0
  /\ pc = [c \in Conns |-> "none"]
  /\ buffer = [c \in Conns |-> <<>>]
  /\ log_entry = [c \in Conns |-> <<>>]
  /\ net = [c \in Conns |-> <<>>]
  /\ peerClosed = [c \in Conns |-> FALSE]
  /\ sent = [c \in Conns |-> <<>>]
  /\ appended = <<>>
  /\ q = QIdle
  /\ MarkersIdle
  /\ MindMapIdle

\* app.py:196-201: bind and listen succeed, the thread enters the accept loop
Bind ==
  /\ listener = "starting"
  /\ listener' = "listening"
  /\ UNCHANGED <<received_logs, clock, connVars, appended, q, http, mkVars, mmVars>>

\* app.py:196, 209-212: bind raises OSError; the except clause prints it, the
\* finally clause closes the socket and the thread ends
BindFail ==
  /\ listener = "starting"
  /\ listener' = "failed"
  /\ UNCHANGED <<received_logs, clock, connVars, appended, q, http, mkVars, mmVars>>

\* app.py:220-228: the main thread prints the banner and calls app.run
AppRun ==
  /\ http = "down"
  /\ http' = "serving"
  /\ UNCHANGED <<received_logs, clock, connVars, appended, q, listener, mkVars, mmVars>>

(***************************************************************************)
(* Environment actions.                                                    *)
(***************************************************************************)
Tick ==
  /\ clock < MaxClock
  /\ clock' = clock + 1
  /\ UNCHANGED <<received_logs, connVars, appended, q, srvVars, mkVars, mmVars>>

\* a forwarder opens a TCP connection to the listening socket; it waits in
\* the listen backlog
Connect(c) ==
  /\ listener = "listening"
  /\ pc[c] = "none"
  /\ pc' = [pc EXCEPT ![c] = "pending"]
  /\ UNCHANGED <<received_logs, clock, buffer, net, peerClosed, sent, appended, q, srvVars, log_entry, mkVars, mmVars>>

\* a forwarder writes one line and its newline; at most max lines
Send(c, line, max) ==
  /\ pc[c] # "none"
  /\ ~peerClosed[c]
  /\ Len(sent[c]) < max
  /\ net' = [net EXCEPT ![c] = @ \o line \o <<"\n">>]
  /\ sent' = [sent EXCEPT ![c] = Append(@, line)]
  /\ UNCHANGED <<received_logs, clock, pc, buffer, peerClosed, appended, q, srvVars, log_entry, mkVars, mmVars>>

\* the last write of a forwarder, a segment without a newline, and its close
SendTail(c, segment) ==
  /\ pc[c] # "none"
  /\ ~peerClosed[c]
  /\ net' = [net EXCEPT ![c] = @ \o segment]
  /\ peerClosed' = [peerClosed EXCEPT ![c] = TRUE]
  /\ UNCHANGED <<received_logs, clock, pc, buffer, sent, appended, q, srvVars, log_entry, mkVars, mmVars>>

\* a forwarder closes its end of the connection
PeerClose(c) ==
  /\ pc[c] # "none"
  /\ ~peerClosed[c]
  /\ peerClosed' = [peerClosed EXCEPT ![c] = TRUE]
  /\ UNCHANGED <<received_logs, clock, pc, buffer, net, sent, appended, q, srvVars, log_entry, mkVars, mmVars>>

(***************************************************************************)
(* start_log_receiver, app.py:200-207: accept a connection and start its   *)
(* handler thread; handle_forwarder_connection starts with buffer = "".    *)
(***************************************************************************)

Accept(c) ==
  /\ listener = "listening"
  /\ pc[c] = "pending"
  /\ pc' = [pc EXCEPT ![c] = "recv"]
  /\ buffer' = [buffer EXCEPT ![c] = <<>>]
  /\ UNCHANGED <<received_logs, clock, net, peerClosed, sent, appended, q, srvVars, log_entry, mkVars, mmVars>>

\* app.py:201, 209-212: accept() raises (OSError); the except clause, which
\* is outside the while loop, prints it, the finally clause closes the
\* listening socket and start_log_receiver returns
AcceptError ==
  /\ listener = "listening"
  /\ listener' = "stopped"
  /\ UNCHANGED <<received_logs, clock, connVars, appended, q, http, mkVars, mmVars>>

\* app.py:201-207, 209-212: accept() returns connection c and Thread.start()
\* raises (RuntimeError: can't start new thread); the same except and finally
\* clauses end the listener, and c has no handler
SpawnError(c) ==
  /\ listener = "listening"
  /\ pc[c] = "pending"
  /\ pc' = [pc EXCEPT ![c] = "orphan"]
  /\ listener' = "stopped"
  /\ UNCHANGED <<received_logs, clock, buffer, net, peerClosed, sent, appended, q, http, log_entry, mkVars, mmVars>>

(***************************************************************************)
(* handle_forwarder_connection, app.py:156-160: recv returns the first n   *)
(* pending bytes (1 <= n <= 4096); they are decoded and added to buffer.   *)
(***************************************************************************)
Recv(c, n) ==
  /\ pc[c] = "recv"
  /\ n \in 1..Min(Len(net[c]), RecvSize)
  /\ buffer' = [buffer EXCEPT ![c] = @ \o Utf8Decode(Take(net[c], n))]
  /\ net' = [net EXCEPT ![c] = Drop(@, n)]
  /\ pc' = [pc EXCEPT ![c] = "loop"]
  /\ UNCHANGED <<received_logs, clock, peerClosed, sent, appended, q, srvVars, log_entry, mkVars, mmVars>>

\* faulty variant: the error of one connection ends the listener
RecvErrorFatal(c) ==
  /\ pc[c] = "recv"
  /\ pc' = [pc EXCEPT ![c] = "closed"]
  /\ listener' = "stopped"
  /\ UNCHANGED <<received_logs, clock, buffer, net, peerClosed, sent, appended, q, http, log_entry, mkVars, mmVars>>

\* app.py:156, 183-186: recv raises (a reset, a read error); the outer except
\* prints it and the finally clause closes the socket; buffer is dropped
\* with the thread
RecvError(c) ==
  /\ pc[c] = "recv"
  /\ pc' = [pc EXCEPT ![c] = "closed"]
  /\ UNCHANGED <<received_logs, clock, buffer, net, peerClosed, sent, appended, q, srvVars, log_entry, mkVars, mmVars>>

\* app.py:156-158, 185-186: recv returns b"" at end of stream; break, close
RecvEofIgnored(c) == \* faulty variant: no break on b"", the loop goes on
  /\ pc[c] = "recv"
  /\ net[c] = <<>>
  /\ peerClosed[c]
  /\ pc' = [pc EXCEPT ![c] = "loop"]
  /\ UNCHANGED <<received_logs, clock, buffer, net, peerClosed, sent, appended, q, srvVars, log_entry, mkVars, mmVars>>

RecvEof(c) ==
  /\ pc[c] = "recv"
  /\ net[c] = <<>>
  /\ peerClosed[c]
  /\ pc' = [pc EXCEPT ![c] = "closed"]
  /\ UNCHANGED <<received_logs, clock, buffer, net, peerClosed, sent, appended, q, srvVars, log_entry, mkVars, mmVars>>

(***************************************************************************)
(* app.py:170-171: the receiver's two fields.                              *)
(***************************************************************************)
\* datetime.now().isoformat(): the date, "T" and the time of day, with the
\* six digits of the microseconds unless they are 0.  The clock reads
\* 02:00:00.990000 at first and a whole second, 02:00:0t, after t ticks.
IsoFormat(t) ==
  <<"2", "0", "2", "6", "-", "1", "0", "-", "3", "0", "T",
    "0", "2", ":", "0", "0", ":", "0">>
  \o <<(<<"0", "1", "2", "3", "4", "5", "6", "7", "8", "9">>)[t + 1]>>
  \o (IF t = 0 THEN <<".", "9", "9", "0", "0", "0", "0">> ELSE <<>>)

Stamp(pairs, t, c) ==
  DictSet(DictSet(pairs, ReceivedAtKey, <<"str", IsoFormat(t)>>),
          SourceKey, <<"str", PeerAddr[c]>>)

\* line, buffer = buffer.split('\n', 1), app.py:164
SplitLine(buf) ==
  LET i == IndexOf(buf, "\n")
  IN [line |-> SubSeq(buf, 1, i - 1), rest |-> Drop(buf, i)]

(***************************************************************************)
(* app.py:167-181: what happens to one stripped line.                      *)
(*   "skip":   a blank line (167), or json.JSONDecodeError, caught at 180; *)
(*   "raise":  JSON that is no dict: the item assignment of line 170       *)
(*             raises TypeError, which only the outer except (183) catches;*)
(*   "append": a dict.                                                     *)
(***************************************************************************)
LineOutcomeStrict(line) == \* faulty variant: a decode error is not caught
  IF line = <<>> THEN "skip"
  ELSE IF ~JsonLoads(line).ok THEN "raise"
  ELSE IF JsonLoads(line).val[1] # "obj" THEN "raise"
  ELSE "append"

LineOutcomeBlankFatal(line) == \* faulty variant: a blank line is an error
  IF line = <<>> THEN "raise"
  ELSE IF ~JsonLoads(line).ok THEN "skip"
  ELSE IF JsonLoads(line).val[1] # "obj" THEN "raise"
  ELSE "append"

LineOutcome(line) ==
  IF line = <<>> THEN "skip"
  ELSE IF ~JsonLoads(line).ok THEN "skip"
  ELSE IF JsonLoads(line).val[1] # "obj" THEN "raise"
  ELSE "append"

\* received_logs.append(log_entry), app.py:173
AppendLogFront(logs, entry) == \* faulty variant: inserts at the front
  <<entry>> \o logs

AppendLog(logs, entry) == Append(logs, entry)

\* received_logs.pop(0), app.py:177
PopNewest(logs) == \* faulty variant: pop() instead of pop(0)
  SubSeq(logs, 1, Len(logs) - 1)

PopOldest(logs) == Tail(logs)

(***************************************************************************)
(* app.py:163-171, 180-186: one turn of the while loop, up to the stamped  *)
(* log_entry.  All of it is local to the thread but the read of the clock  *)
(* (170).  Without a newline in buffer the loop ends and the thread is     *)
(* back at recv; on "raise" the finally clause closes the socket and the   *)
(* handler ends; a dict is stamped and the thread stands before the append *)
(* of line 173, where other threads may run first.                         *)
(***************************************************************************)
ProcessLineEager(c) == \* faulty variant: a buffer without newline is a line
  /\ pc[c] = "loop"
  /\ IF buffer[c] = <<>>
     THEN /\ pc' = [pc EXCEPT ![c] = "recv"]
          /\ UNCHANGED <<log_entry, buffer>>
     ELSE LET sp == IF IndexOf(buffer[c], "\n") = 0
                    THEN [line |-> buffer[c], rest |-> <<>>]
                    ELSE SplitLine(buffer[c])
              line == Strip(sp.line)
              outcome == LineOutcome(line)
          IN /\ buffer' = [buffer EXCEPT ![c] = sp.rest]
             /\ pc' = [pc EXCEPT ![c] =
                         IF outcome = "skip" THEN "loop"
                         ELSE IF outcome = "raise" THEN "closed"
                         ELSE "append"]
             /\ IF outcome = "append"
                THEN log_entry' = [log_entry EXCEPT ![c] =
                       <<"obj", Stamp(JsonLoads(line).val[2], clock, c)>>]
                ELSE UNCHANGED log_entry
  /\ UNCHANGED <<received_logs, appended, clock, net, peerClosed, sent, q, srvVars, mkVars, mmVars>>

ProcessLine(c) ==
  /\ pc[c] = "loop"
  /\ IF IndexOf(buffer[c], "\n") = 0
     THEN /\ pc' = [pc EXCEPT ![c] = "recv"]
          /\ UNCHANGED <<log_entry, buffer>>
     ELSE LET sp == SplitLine(buffer[c])
              line == Strip(sp.line)
              outcome == LineOutcome(line)
          IN /\ buffer' = [buffer EXCEPT ![c] = sp.rest]
             /\ pc' = [pc EXCEPT ![c] =
                         IF outcome = "skip" THEN "loop"
                         ELSE IF outcome = "raise" THEN "closed"
                         ELSE "append"]
             /\ IF outcome = "append"
                THEN log_entry' = [log_entry EXCEPT ![c] =
                       <<"obj", Stamp(JsonLoads(line).val[2], clock, c)>>]
                ELSE UNCHANGED log_entry
  /\ UNCHANGED <<received_logs, appended, clock, net, peerClosed, sent, q, srvVars, mkVars, mmVars>>

\* app.py:173: received_logs.append(log_entry), one atomic list operation;
\* the local is not read again before line 169 assigns it anew
AppendEntry(c) ==
  /\ pc[c] = "append"
  /\ received_logs' = AppendLog(received_logs, log_entry[c])
  /\ appended' = Append(appended, log_entry[c])
  /\ log_entry' = [log_entry EXCEPT ![c] = <<>>]
  /\ pc' = [pc EXCEPT ![c] = "check"]
  /\ UNCHANGED <<clock, buffer, net, peerClosed, sent, q, srvVars, mkVars, mmVars>>

\* app.py:176: if len(received_logs) > MAX_LOGS
CheckLimit(c) ==
  /\ pc[c] = "check"
  /\ pc' = [pc EXCEPT ![c] =
              IF Len(received_logs) > MAX_LOGS THEN "pop" ELSE "loop"]
  /\ UNCHANGED <<received_logs, clock, buffer, net, peerClosed, sent, appended, q, srvVars, log_entry, mkVars, mmVars>>

\* app.py:177: received_logs.pop(0); IndexError on an empty list ends the handler
Pop(c) ==
  /\ pc[c] = "pop"
  /\ IF received_logs = <<>>
     THEN /\ pc' = [pc EXCEPT ![c] = "closed"]
          /\ UNCHANGED received_logs
     ELSE /\ received_logs' = PopOldest(received_logs)
          /\ pc' = [pc EXCEPT ![c] = "loop"]
  /\ UNCHANGED <<clock, buffer, net, peerClosed, sent, appended, q, srvVars, log_entry, mkVars, mmVars>>

(***************************************************************************)
(* get_logs, app.py:130-146.                                               *)
(***************************************************************************)
\* lst[-limit:], app.py:136, by Python's slice rules
Window(lst, limit) ==
  LET start0 == -limit
      start1 == IF start0 < 0 THEN Max(start0 + Len(lst), 0)
                ELSE Min(start0, Len(lst))
  IN Drop(lst, start1)

\* str.lower() on the letters of the model
LowerChar(ch) ==
  IF ch = "A" THEN "a" ELSE IF ch = "E" THEN "e" ELSE IF ch = "T" THEN "t"
  ELSE ch

Lower(s) == [i \in 1..Len(s) |-> LowerChar(s[i])]

\* a JSON string literal under ensure_ascii: U+00E9 is written é
RECURSIVE DumpChars(_)
DumpChars(s) ==
  IF s = <<>> THEN <<>>
  ELSE (IF s[1] = "u00E9" THEN <<"\\", "u", "0", "0", "e", "9">> ELSE <<s[1]>>)
       \o DumpChars(Tail(s))

DumpString(s) == <<"\"">> \o DumpChars(s) \o <<"\"">>

\* json.dumps(log), app.py:140, with the default separators ", " and ": "
RECURSIVE JsonDumps(_)
RECURSIVE DumpItems(_)
RECURSIVE DumpPairs(_)
DumpItems(vs) ==
  IF vs = <<>> THEN <<>>
  ELSE JsonDumps(vs[1])
       \o (IF Len(vs) > 1 THEN <<",", " ">> ELSE <<>>) \o DumpItems(Tail(vs))

DumpPairs(ps) ==
  IF ps = <<>> THEN <<>>
  ELSE DumpString(ps[1][1]) \o <<":", " ">> \o JsonDumps(ps[1][2])
       \o (IF Len(ps) > 1 THEN <<",", " ">> ELSE <<>>) \o DumpPairs(Tail(ps))

JsonDumps(v) ==
  IF v[1] = "num" THEN v[2]
  ELSE IF v[1] = "str" THEN DumpString(v[2])
  ELSE IF v[1] = "null" THEN <<"n", "u", "l", "l">>
  ELSE IF v[1] = "arr" THEN <<"[">> \o DumpItems(v[2]) \o <<"]">>
  ELSE <<"{">> \o DumpPairs(v[2]) \o <<"}">>

\* needle in hay, for strings
Contains(hay, needle) ==
  \E i \in 1..(Len(hay) - Len(needle) + 1) :
    SubSeq(hay, i, i + Len(needle) - 1) = needle

\* app.py:139-140
FilterLogsCased(logs, search_query) == \* faulty variant: case-sensitive
  IF search_query = <<>> THEN logs
  ELSE SelectSeq(logs, LAMBDA log : Contains(JsonDumps(log), search_query))

FilterLogs(logs, search_query) ==
  IF search_query = <<>> THEN logs
  ELSE SelectSeq(logs,
         LAMBDA log : Contains(Lower(JsonDumps(log)), Lower(search_query)))

\* app.py:133-136: the arguments are read and the window is sliced
QStartFilterFirst(limit, search_query) == \* faulty variant: filter, then slice
  /\ http = "serving"
  /\ q.pc \in {"idle", "done"}
  /\ q' = [pc |-> "sliced", limit |-> limit, filter |-> search_query,
           logs |-> Window(FilterLogs(received_logs, search_query), limit),
           total |-> 0, returned |-> 0,
           snap |-> received_logs, appendedAtSlice |-> Len(appended),
           quiet |-> \A c \in Conns : pc[c] \notin {"check", "pop"}]
  /\ UNCHANGED <<received_logs, clock, connVars, appended, srvVars, mkVars, mmVars>>

QStart(limit, search_query) ==
  /\ http = "serving"
  /\ q.pc \in {"idle", "done"}
  /\ q' = [pc |-> "sliced", limit |-> limit, filter |-> search_query,
           logs |-> Window(received_logs, limit), total |-> 0, returned |-> 0,
           snap |-> received_logs, appendedAtSlice |-> Len(appended),
           quiet |-> \A c \in Conns : pc[c] \notin {"check", "pop"}]
  /\ UNCHANGED <<received_logs, clock, connVars, appended, srvVars, mkVars, mmVars>>

\* app.py:139-146: the window is filtered, then len(received_logs) is read
QFinishLive == \* faulty variant: logs is a view of the shared list, no copy
  /\ q.pc = "sliced"
  /\ LET logs == FilterLogs(Window(received_logs, q.limit), q.filter)
     IN q' = [q EXCEPT !.pc = "done", !.logs = logs,
                       !.total = Len(received_logs), !.returned = Len(logs)]
  /\ UNCHANGED <<received_logs, clock, connVars, appended, srvVars, mkVars, mmVars>>

QFinish ==
  /\ q.pc = "sliced"
  /\ LET logs == FilterLogs(q.logs, q.filter)
     IN q' = [q EXCEPT !.pc = "done", !.logs = logs,
                       !.total = Len(received_logs), !.returned = Len(logs)]
  /\ UNCHANGED <<received_logs, clock, connVars, appended, srvVars, mkVars, mmVars>>

(***************************************************************************)
(* Spec: the receiver with two connections whose forwarders send valid     *)
(* one-byte-character lines, one line per write, and a query client that   *)
(* asks for a window shorter than the list or for all of it.               *)
(***************************************************************************)
ConcLimits == {1, MAX_LOGS + 1}

DoConnect == \E c \in Conns : Connect(c)

DoAccept == \E c \in Conns : Accept(c)

DoSend == \E c \in Conns : Send(c, ObjLine(Len(sent[c]) + 1), MaxLines)

DoRecv == \E c \in Conns : Recv(c, Min(Len(net[c]), RecvSize))

DoProcessLine == \E c \in Conns : ProcessLine(c)

DoCheckLimit == \E c \in Conns : CheckLimit(c)

DoPop == \E c \in Conns : Pop(c)

DoQStart == \E limit \in ConcLimits : QStart(limit, <<>>)

Next ==
  \/ DoConnect
  \/ DoAccept
  \/ DoSend
  \/ DoRecv
  \/ DoProcessLine
  \/ \E c \in Conns : AppendEntry(c)
  \/ DoCheckLimit
  \/ DoPop
  \/ DoQStart
  \/ QFinish

Spec == Init /\ [][Next]_vars

(***************************************************************************)
(* SpecStream: one connection; its forwarder sends lines of every kind and *)
(* recv returns the pending bytes in pieces of any size.                   *)
(***************************************************************************)
StreamSend ==
  \E line \in AllLines(Len(sent[1]) + 1) : Send(1, line, MaxStreamLines)

StreamRecv == \E n \in 1..Len(net[1]) : Recv(1, n)

NextStream ==
  \/ Tick
  \/ Connect(1)
  \/ Accept(1)
  \/ StreamSend
  \/ StreamRecv
  \/ ProcessLine(1)
  \/ AppendEntry(1)
  \/ CheckLimit(1)
  \/ Pop(1)

SpecStream == Init /\ [][NextStream]_vars

(***************************************************************************)
(* SpecFifo: one connection whose forwarder sends up to MAX_LOGS + 1 valid *)
(* lines, one line per write, and a query client.                          *)
(***************************************************************************)
FifoSend ==
  \E line \in ValidLines(Len(sent[1]) + 1) : Send(1, line, MAX_LOGS + 1)

FifoRecv == Recv(1, Min(Len(net[1]), RecvSize))

Limits == 0..(MAX_LOGS + 1)

NextFifo ==
  \/ Tick
  \/ Connect(1)
  \/ Accept(1)
  \/ FifoSend
  \/ FifoRecv
  \/ ProcessLine(1)
  \/ AppendEntry(1)
  \/ CheckLimit(1)
  \/ Pop(1)
  \/ \E limit \in Limits : QStart(limit, <<>>)
  \/ QFinish

SpecFifo == Init /\ [][NextFifo]_vars

(***************************************************************************)
(* SpecStamp: two connections; each forwarder sends lines, one per write,  *)
(* with or without a key of the receiver's: connection 1 sends             *)
(* {"source":k} or {"received_at":k}, connection 2 sends {"a":k}, together  *)
(* one line more than the list can hold.  The digits of connection 2       *)
(* follow those of connection 1.  A query client asks for the whole list.  *)
(***************************************************************************)
StampDigit(c, i) == (c - 1) * MaxStampLines + i

StampLines(c, k) == IF c = 1 THEN {SrcLine(k), TimeLine(k)} ELSE {ObjLine(k)}

StampSend ==
  \E c \in Conns :
    \E line \in StampLines(c, StampDigit(c, Len(sent[c]) + 1)) :
      Send(c, line,
           IF c = 1 THEN MaxStampLines ELSE MAX_LOGS + 1 - MaxStampLines)

NextStamp ==
  \/ Tick
  \/ DoConnect
  \/ DoAccept
  \/ StampSend
  \/ DoRecv
  \/ DoProcessLine
  \/ \E c \in Conns : AppendEntry(c)
  \/ DoCheckLimit
  \/ DoPop
  \/ QStart(MAX_LOGS + 1, <<>>)
  \/ QFinish

SpecStamp == Init /\ [][NextStamp]_vars

(***************************************************************************)
(* SpecQuery: one connection whose forwarder sends valid lines, one line   *)
(* per write, and a query client that asks with a limit and a filter: no   *)
(* filter, "A" in quotes, E9 (in the text json.dumps writes for U+00E9),   *)
(* 99 (in the microseconds of received_at: the clock of this specification *)
(* stays at its first reading) and zz (in no record, whatever the clock).  *)
(***************************************************************************)
QuerySend ==
  \E line \in ValidLines(Len(sent[1]) + 1) : Send(1, line, MAX_LOGS + 1)

QueryLimits == {-1, 1, MAX_LOGS + 1}

FilterQuoteA == <<"\"", "A", "\"">>

FilterE9 == <<"E", "9">>

Filter99 == <<"9", "9">>

FilterNone == <<"z", "z">>

Filters == {<<>>, FilterQuoteA, FilterE9, Filter99, FilterNone}

QueryQStart ==
  \E limit \in QueryLimits : \E search_query \in Filters :
    QStart(limit, search_query)

NextQuery ==
  \/ Connect(1)
  \/ Accept(1)
  \/ QuerySend
  \/ FifoRecv
  \/ ProcessLine(1)
  \/ AppendEntry(1)
  \/ CheckLimit(1)
  \/ Pop(1)
  \/ QueryQStart
  \/ QFinish

SpecQuery == Init /\ [][NextQuery]_vars

(***************************************************************************)
(* SpecStartup: the process from its start: the receiver thread binds its  *)
(* port or fails to, the main thread starts the HTTP server; then one      *)
(* connection and a query client as in SpecFifo.                           *)
(***************************************************************************)
NextStartup ==
  \/ Bind
  \/ BindFail
  \/ AppRun
  \/ Connect(1)
  \/ Accept(1)
  \/ Send(1, ObjLine(Len(sent[1]) + 1), MAX_LOGS + 1)
  \/ FifoRecv
  \/ ProcessLine(1)
  \/ AppendEntry(1)
  \/ CheckLimit(1)
  \/ Pop(1)
  \/ QStart(MAX_LOGS + 1, <<>>)
  \/ QFinish

SpecStartup == InitStartup /\ [][NextStartup]_vars

(***************************************************************************)
(* SpecListener: two connections, transport errors included: accept or a   *)
(* thread start fails, a recv fails.  The forwarders send {"a":k} lines;   *)
(* recv returns the first ChunkSize pending bytes (a part of a line) or    *)
(* all of them.                                                            *)
(***************************************************************************)
ListenerSend == \E c \in Conns : Send(c, ObjLine(Len(sent[c]) + 1), MaxLines)

ListenerRecv ==
  \E c \in Conns : \E n \in {ChunkSize, Len(net[c])} : Recv(c, n)

NextListener ==
  \/ DoConnect
  \/ DoAccept
  \/ AcceptError
  \/ \E c \in Conns : SpawnError(c)
  \/ ListenerSend
  \/ ListenerRecv
  \/ \E c \in Conns : RecvError(c)
  \/ DoProcessLine
  \/ \E c \in Conns : AppendEntry(c)
  \/ DoCheckLimit
  \/ DoPop

SpecListener == Init /\ [][NextListener]_vars

(***************************************************************************)
(* SpecClose: one connection from its start to its end.  The forwarder     *)
(* sends lines of every kind and closes its end at any time; recv returns  *)
(* a short read or all pending bytes, b"" at end of stream, or raises.     *)
(* Fairness: the handler is a running thread, so a step it can take (a     *)
(* recv that has bytes or end of stream to return, a turn of the while     *)
(* loop, the append, the length test, the pop) is eventually taken.        *)
(* Nothing is                                                              *)
(* assumed of the forwarder or of errors.  The weak fairness of            *)
(* ProcessLine is written out, with pc[c] = "loop" for                     *)
(* ENABLED <<ProcessLine(c)>>_vars: they are equal, as a turn of the loop  *)
(* always changes pc[c] or buffer[c].                                      *)
(***************************************************************************)
CloseSend ==
  \E line \in AllLines(Len(sent[1]) + 1) : Send(1, line, MAX_LOGS + 1)

CloseRecv == \E n \in {ChunkSize, Len(net[1])} : Recv(1, n)

ProcessLineFair(c) ==
  []<>(pc[c] # "loop") \/ []<><<ProcessLine(c)>>_vars

HandlerFair(c) ==
  /\ WF_vars(\E n \in 1..Len(net[c]) : Recv(c, n))
  /\ WF_vars(RecvEof(c))
  /\ ProcessLineFair(c)
  /\ WF_vars(AppendEntry(c))
  /\ WF_vars(CheckLimit(c))
  /\ WF_vars(Pop(c))

NextClose ==
  \/ Connect(1)
  \/ Accept(1)
  \/ CloseSend
  \/ PeerClose(1)
  \/ CloseRecv
  \/ RecvEof(1)
  \/ RecvError(1)
  \/ ProcessLine(1)
  \/ AppendEntry(1)
  \/ CheckLimit(1)
  \/ Pop(1)

SpecClose == Init /\ [][NextClose]_vars /\ HandlerFair(1)

(***************************************************************************)
(* SpecBlank: one connection whose forwarder sends {"a":k} lines, lines of *)
(* one space and empty lines; recv returns the pending bytes in pieces of  *)
(* any size.                                                               *)
(***************************************************************************)
NextBlank ==
  \/ Connect(1)
  \/ Accept(1)
  \/ \E line \in {ObjLine(Len(sent[1]) + 1), BlankLine, EmptyLine} : Send(1, line, MaxStreamLines)
  \/ StreamRecv
  \/ ProcessLine(1)
  \/ AppendEntry(1)
  \/ CheckLimit(1)
  \/ Pop(1)

SpecBlank == Init /\ [][NextBlank]_vars

(***************************************************************************)
(* Vocabulary of the properties.                                           *)
(***************************************************************************)
\* the last n elements of s (all of s when n >= Len(s))
LastN(s, n) == Drop(s, Max(Len(s) - n, 0))

\* the record stored for a line of connection c that arrives in one read
RecordOf(c, line, t) ==
  <<"obj", Stamp(JsonLoads(Strip(Utf8Decode(line))).val[2], t, c)>>

\* a record with its received_at blanked: records are compared apart from it
SansTime(rec) == <<"obj", DictSet(rec[2], ReceivedAtKey, <<"null", <<>>>>)>>

SansTimes(recs) == [i \in 1..Len(recs) |-> SansTime(recs[i])]

\* the stored record rec is the one of the i-th line of connection c
IsRecordOf(rec, c, i) == SansTime(rec) = SansTime(RecordOf(c, sent[c][i], 0))

\* the records of the lines of connection c that decode to an object, in order
ExpectedOf(c) ==
  LET valid == SelectSeq(sent[c],
                 LAMBDA line : /\ JsonLoads(Strip(Utf8Decode(line))).ok
                               /\ JsonLoads(Strip(Utf8Decode(line))).val[1] = "obj")
  IN [i \in 1..Len(valid) |-> SansTime(RecordOf(c, valid[i], 0))]

\* the handler of c waits in recv and every byte sent has been consumed
Quiescent(c) == pc[c] = "recv" /\ net[c] = <<>>

\* no handler is between its append (173) and the end of its eviction (177)
NoAppendInProgress == \A c \in Conns : pc[c] \notin {"check", "pop"}

\* the characters of the lines sent on c, each with its newline
RECURSIVE StreamText(_)
StreamText(lines) ==
  IF lines = <<>> THEN <<>>
  ELSE Utf8Decode(lines[1]) \o <<"\n">> \o StreamText(Tail(lines))

IsSuffix(s, t) == Len(s) <= Len(t) /\ s = LastN(t, Len(s))

(***************************************************************************)
(* C1 (Spec).  Capacity invariant: in every reachable state, and in every  *)
(* list a query reads, received_logs holds at most MAX_LOGS records.       *)
(* Violated: the record is appended (173) before the oldest is evicted     *)
(* (176-177), so the list holds MAX_LOGS + 1 records in between, and more  *)
(* with several handlers.                                                  *)
(***************************************************************************)
C1_CapacityInvariant ==
  /\ Len(received_logs) <= MAX_LOGS
  /\ q.pc # "idle" => Len(q.snap) <= MAX_LOGS

(***************************************************************************)
(* C2 (Spec).  No torn read: the window a query slices equals the window   *)
(* of the list after some whole number of completed appends, that is of    *)
(* the last MAX_LOGS of the first k records appended, for some k.          *)
(* Violated: a query that slices between an append and its eviction reads  *)
(* MAX_LOGS + 1 records.                                                   *)
(***************************************************************************)
C2_NoTornRead ==
  q.pc # "idle" =>
    \E k \in 0..q.appendedAtSlice :
      Window(q.snap, q.limit)
        = Window(LastN(SubSeq(appended, 1, k), MAX_LOGS), q.limit)

(***************************************************************************)
(* C3 (Spec).  Once MAX_LOGS records have been appended in total, the list *)
(* holds exactly MAX_LOGS records whenever no append is in progress.       *)
(* Violated: two handlers append, both read a length above MAX_LOGS, both  *)
(* evict: two records are evicted where one was over capacity.             *)
(***************************************************************************)
C3_FullOnceFilled ==
  (Len(appended) >= MAX_LOGS /\ NoAppendInProgress)
    => Len(received_logs) = MAX_LOGS

(***************************************************************************)
(* C4 (SpecFifo).  FIFO eviction on one connection: when the n valid lines *)
(* sent have all been processed, the list holds the records of the last    *)
(* min(n, MAX_LOGS) lines in their order; a query with empty filter and    *)
(* limit = MAX_LOGS made then reports total = returned = min(n, MAX_LOGS)  *)
(* and those records in that order.                                        *)
(***************************************************************************)
C4_FifoEviction ==
  /\ (Quiescent(1) /\ buffer[1] = <<>>)
       => SansTimes(received_logs) = LastN(ExpectedOf(1), MAX_LOGS)
  /\ (/\ q.pc = "done" /\ q.limit = MAX_LOGS /\ q.filter = <<>>
      /\ q.quiet /\ q.appendedAtSlice = Len(sent[1]))
       => /\ q.total = Min(Len(sent[1]), MAX_LOGS)
          /\ q.returned = Min(Len(sent[1]), MAX_LOGS)
          /\ SansTimes(q.logs) = LastN(ExpectedOf(1), MAX_LOGS)

\* MAX_LOGS + 1 lines were stored, the first was evicted, and a query answered
C4_Witness ==
  /\ q.pc = "done" /\ q.limit = MAX_LOGS /\ q.filter = <<>>
  /\ q.quiet /\ q.appendedAtSlice = Len(sent[1])
  /\ Len(sent[1]) = MAX_LOGS + 1
  /\ q.returned = MAX_LOGS
  /\ ~(\E p \in 1..Len(received_logs) : IsRecordOf(received_logs[p], 1, 1))

(***************************************************************************)
(* C5 (Spec).  Per-connection order: when the records of two lines of one  *)
(* connection are both in the list, the record of the line sent first is   *)
(* before the other, however the handlers interleave.                      *)
(***************************************************************************)
C5_PerConnectionOrder ==
  LET logs == SansTimes(received_logs)
  IN \A c \in Conns :
       LET recs == [i \in 1..Len(sent[c]) |-> SansTime(RecordOf(c, sent[c][i], 0))]
       IN \A i, j \in 1..Len(recs) :
            \A p1, p2 \in 1..Len(logs) :
              (i < j /\ logs[p1] = recs[i] /\ logs[p2] = recs[j]) => p1 < p2

\* two records of connection 1 with a record of connection 2 between them
C5_Witness ==
  \E p1, p2, p3 \in 1..Len(received_logs) :
    /\ p1 < p2 /\ p2 < p3
    /\ Len(sent[1]) >= 2 /\ Len(sent[2]) >= 1
    /\ IsRecordOf(received_logs[p1], 1, 1)
    /\ IsRecordOf(received_logs[p2], 2, 1)
    /\ IsRecordOf(received_logs[p3], 1, 2)

(***************************************************************************)
(* C6 (SpecStream).  A line of JSON that is no object is dropped like a    *)
(* decode error: the handler stays open (the peer has not closed), and     *)
(* once every byte is consumed, one record has been appended for every     *)
(* line sent that decodes to an object.                                    *)
(* Violated: json.loads succeeds, line 170 raises TypeError, the handler   *)
(* closes the socket and the later lines are never read.                   *)
(***************************************************************************)
C6_NonObjectLineIsolated ==
  ~peerClosed[1] =>
    /\ pc[1] # "closed"
    /\ Quiescent(1) => Len(appended) = Len(ExpectedOf(1))

(***************************************************************************)
(* C7 (SpecStream).  Decode isolation: on a stream of valid one-byte       *)
(* character lines and syntactically malformed lines (valid, malformed,    *)
(* valid among them) the handler is never closed, what is buffered and     *)
(* pending is always the unread end of the stream, and once every byte is  *)
(* consumed the list holds exactly the records of the valid lines, in      *)
(* order (the last MAX_LOGS of them).                                      *)
(***************************************************************************)
C7_DecodeIsolation ==
  (\A i \in 1..Len(sent[1]) : sent[1][i] \in {ObjLine(i), BadLine(i)}) =>
    /\ pc[1] # "closed"
    /\ pc[1] \notin {"none", "pending"} =>
         IsSuffix(buffer[1] \o Utf8Decode(net[1]), StreamText(sent[1]))
    /\ Quiescent(1) =>
         /\ buffer[1] = <<>>
         /\ SansTimes(received_logs) = LastN(ExpectedOf(1), MAX_LOGS)

\* valid, malformed, valid: consumed, two records stored, the handler open
C7_Witness ==
  /\ sent[1] = <<ObjLine(1), BadLine(2), ObjLine(3)>>
  /\ Quiescent(1)
  /\ Len(received_logs) = 2
  /\ IsRecordOf(received_logs[1], 1, 1)
  /\ IsRecordOf(received_logs[2], 1, 3)

(***************************************************************************)
(* C8 (SpecStream).  Partial-line reassembly: however the bytes of one     *)
(* valid line are split over reads, exactly one record is stored, the same *)
(* (apart from received_at) as when the line arrives in one read.          *)
(* Violated: each read is decoded on its own with errors='ignore' (160),   *)
(* so a character whose bytes are split over two reads is lost.            *)
(***************************************************************************)
C8_PartialLineReassembly ==
  (Len(sent[1]) = 1 /\ sent[1][1] \in ValidLines(1) /\ Quiescent(1)) =>
    SansTimes(received_logs) = <<SansTime(RecordOf(1, sent[1][1], 0))>>

(***************************************************************************)
(* C9 (SpecFifo).  Query window: for a limit >= 0 the window sliced is the *)
(* newest min(limit, len) records of the list, in list order; none for     *)
(* limit = 0.                                                              *)
(* Violated: received_logs[-0:] is the whole list.                         *)
(***************************************************************************)
C9_QueryWindow ==
  (q.pc = "sliced" /\ q.limit >= 0) =>
    q.logs = LastN(q.snap, Min(q.limit, Len(q.snap)))

(***************************************************************************)
(* C10 (Spec).  The total of a response is the length the list had when    *)
(* the window was sliced.                                                  *)
(* Violated: len(received_logs) is read again at line 143, after handlers  *)
(* may have appended or evicted.                                           *)
(***************************************************************************)
C10_TotalMatchesWindow == q.pc = "done" => q.total = Len(q.snap)

(***************************************************************************)
(* C11 (SpecStamp).  Stamping: every record in the store, and every record *)
(* a query returns, has received_at set to a time the receiver's clock has *)
(* shown and source set to the peer address of the connection whose        *)
(* forwarder sent it; a received_at or source key of the forwarder's JSON  *)
(* has the receiver's value, not the forwarder's.                          *)
(***************************************************************************)
AKey == <<"a">>

\* the text of the clock's first reading, 2026-10-30T02:00:00.990000
FirstTime ==
  <<"2", "0", "2", "6", "-", "1", "0", "-", "3", "0", "T", "0", "2", ":",
    "0", "0", ":", "0", "0", ".", "9", "9", "0", "0", "0", "0">>

\* the text of its reading after t ticks, 2026-10-30T02:00:0t
LaterTime(t) ==
  <<"2", "0", "2", "6", "-", "1", "0", "-", "3", "0", "T", "0", "2", ":",
    "0", "0", ":", "0", Digit(t)>>

\* the texts of the times the clock has shown
TimeValues == {<<"str", LaterTime(t)>> : t \in 1..clock}
                \cup {<<"str", FirstTime>>}

\* the stamped records of the lines connection c has sent
StampedOf(c) ==
  LET addr == <<"str", PeerAddr[c]>>
  IN UNION {
       IF sent[c][i] = ObjLine(StampDigit(c, i))
       THEN {<<"obj", << <<AKey, <<"num", <<Digit(StampDigit(c, i))>>>>>>,
                         <<ReceivedAtKey, tv>>, <<SourceKey, addr>> >>>>
               : tv \in TimeValues}
       ELSE IF sent[c][i] = SrcLine(StampDigit(c, i))
       THEN {<<"obj", << <<SourceKey, addr>>, <<ReceivedAtKey, tv>> >>>>
               : tv \in TimeValues}
       ELSE {<<"obj", << <<ReceivedAtKey, tv>>, <<SourceKey, addr>> >>>>
               : tv \in TimeValues}
       : i \in 1..Len(sent[c])}

C11_Stamping ==
  LET stamped == UNION {StampedOf(c) : c \in Conns}
  IN /\ \A i \in 1..Len(received_logs) : received_logs[i] \in stamped
     /\ q.pc = "done" => \A i \in 1..Len(q.logs) : q.logs[i] \in stamped

\* the record of a {"source":k} line and one of the other connection are
\* stored and returned, the first before and the second after a tick
C11_Witness ==
  /\ q.pc = "done"
  /\ Len(q.logs) = 2
  /\ sent[1] = <<SrcLine(StampDigit(1, 1))>>
  /\ q.logs[1][2][1] = <<SourceKey, <<"str", PeerAddr[1]>>>>
  /\ q.logs[1][2][2] = <<ReceivedAtKey, <<"str", FirstTime>>>>
  /\ q.logs[2][2][2] = <<ReceivedAtKey, <<"str", LaterTime(1)>>>>
  /\ q.logs[2][2][3] = <<SourceKey, <<"str", PeerAddr[2]>>>>

(***************************************************************************)
(* C12 (SpecQuery).  Query filter result: with a filter, the response      *)
(* holds exactly the records of the sliced window whose serialized text    *)
(* contains the filter, compared without regard to case, in the window's   *)
(* order, and returned is their number; a filter no record contains gives  *)
(* no record and returned = 0; without a filter the window is returned.    *)
(* The filters of SpecQuery: "A" in quotes is in the records of {"a":k}    *)
(* lines only, E9 in those of the U+00E9 lines only, 99 in the received_at *)
(* of every record (02:00:00.990000), zz in none.                          *)
(***************************************************************************)
FirstKey(rec) == rec[2][1][1]

C12_QueryFilter ==
  q.pc = "done" =>
    LET window == Window(q.snap, q.limit)
        ofKey(key) == SelectSeq(window, LAMBDA rec : FirstKey(rec) = key)
    IN /\ q.returned = Len(q.logs)
       /\ q.filter = <<>> => q.logs = window
       /\ q.filter = FilterQuoteA => q.logs = ofKey(<<"a">>)
       /\ q.filter = FilterE9 => q.logs = ofKey(<<"u00E9">>)
       /\ q.filter = Filter99 => q.logs = window
       /\ q.filter = FilterNone => q.logs = <<>> /\ q.returned = 0

\* a window of two records of which the filter selects the second
C12_Witness ==
  /\ q.pc = "done"
  /\ q.filter = FilterQuoteA
  /\ q.limit = MAX_LOGS + 1
  /\ Len(q.snap) = 2
  /\ FirstKey(q.snap[1]) = <<"u00E9">>
  /\ q.logs = <<q.snap[2]>>
  /\ q.returned = 1

(***************************************************************************)
(* C13 (SpecQuery).  Windowing precedes filtering: for a limit >= 1 no     *)
(* record of the list that is older than its newest limit records is in    *)
(* the response, whether or not it contains the filter; so a response can  *)
(* hold fewer than limit records while limit or more records that contain  *)
(* the filter are stored.  (The records of one connection are distinct.)   *)
(***************************************************************************)
C13_WindowBeforeFilter ==
  (q.pc = "done" /\ q.limit >= 1) =>
    \A i \in 1..(Len(q.snap) - q.limit) :
      \A j \in 1..Len(q.logs) : q.logs[j] # q.snap[i]

\* limit 1: the stored record that contains the filter is not the newest,
\* and the response is empty
C13_Witness ==
  /\ q.pc = "done"
  /\ q.limit = 1
  /\ q.filter = FilterQuoteA
  /\ Len(q.snap) = 2
  /\ FirstKey(q.snap[1]) = <<"a">>
  /\ FirstKey(q.snap[2]) = <<"u00E9">>
  /\ q.logs = <<>>
  /\ q.returned = 0

(***************************************************************************)
(* C14 (SpecQuery).  Invalid limit: a query with a negative limit returns  *)
(* no stored record (it is rejected, or answered as for no records).       *)
(* Violated: the limit is used as read (133), and received_logs[-limit:]   *)
(* with limit = -k is received_logs[k:], all records but the k oldest.     *)
(***************************************************************************)
C14_NegativeLimit == (q.pc = "done" /\ q.limit < 0) => q.logs = <<>>

(***************************************************************************)
(* C15 (SpecStartup).  Bind failure is fatal: once binding the receiver    *)
(* port has failed, the HTTP query API is not started.                     *)
(* Violated: the OSError is caught and printed inside the receiver thread  *)
(* (209-210); the main thread calls app.run (228) whatever happened.       *)
(***************************************************************************)
C15_BindFailureFatal == [][listener = "failed" => http' = http]_vars

(***************************************************************************)
(* C16 (SpecListener).  Transport-error isolation.  The step in which a    *)
(* handler ends on a read error changes neither the store, nor the         *)
(* listener, nor another connection's handler, buffer or pending bytes.    *)
(* At all times the records appended for a connection are the complete     *)
(* records of the first lines it sent, in order (no partial record), and a *)
(* handler that has read everything sent to it has stored all of it,       *)
(* whatever happened to the other connection.                              *)
(***************************************************************************)
\* the record of the i-th {"a":i} line of connection c (the clock is 0)
ObjRecord(c, i) ==
  <<"obj", << <<AKey, <<"num", <<Digit(i)>>>>>>,
              <<ReceivedAtKey, <<"str", FirstTime>>>>,
              <<SourceKey, <<"str", PeerAddr[c]>>>> >>>>

\* the records of s whose source is connection c's address
FromConn(s, c) ==
  SelectSeq(s, LAMBDA rec : rec[2][Len(rec[2])][2] = <<"str", PeerAddr[c]>>)

ReadErrorStep(c) == pc[c] = "recv" /\ pc'[c] = "closed"

C16_StoredPrefix ==
  \A c \in Conns :
    LET mine == FromConn(appended, c)
    IN /\ Len(mine) <= Len(sent[c])
       /\ \A i \in 1..Len(mine) : mine[i] = ObjRecord(c, i)
       /\ Quiescent(c) => Len(mine) = Len(sent[c])

C16_TransportErrorIsolation ==
  /\ []C16_StoredPrefix
  /\ [][\A c \in Conns :
          ReadErrorStep(c) =>
            /\ received_logs' = received_logs
            /\ appended' = appended
            /\ listener' = listener
            /\ \A d \in Conns \ {c} :
                 pc'[d] = pc[d] /\ buffer'[d] = buffer[d] /\ net'[d] = net[d]]_vars

\* connection 1 failed with one record stored and a part of its second line
\* read; the listener runs and connection 2 has stored both its lines since
C16_Witness ==
  /\ pc[1] = "closed"
  /\ Len(sent[1]) = 2
  /\ Len(net[1]) = Len(ObjLine(2)) + 1 - ChunkSize
  /\ FromConn(appended, 1) = <<ObjRecord(1, 1)>>
  /\ listener = "listening"
  /\ Quiescent(2)
  /\ appended = <<ObjRecord(1, 1), ObjRecord(2, 1), ObjRecord(2, 2)>>
  /\ received_logs = <<ObjRecord(2, 1), ObjRecord(2, 2)>>

(***************************************************************************)
(* C17 (SpecListener).  The listener accepts indefinitely: after the       *)
(* successful bind it stays in its accept loop, also when an accept call   *)
(* or the start of a handler thread fails.                                 *)
(* Violated: the try of start_log_receiver encloses the while loop, so     *)
(* the first exception of accept() or Thread.start() leaves the loop (209) *)
(* and the finally clause closes the listening socket (212).               *)
(***************************************************************************)
C17_ListenerNeverStops == listener = "listening"

(***************************************************************************)
(* C18 (SpecListener).  Accepting is not blocked by handler work: whatever *)
(* the handlers of the other connections are doing, a pending connection   *)
(* that the listener takes gets its handler (exactly one: its thread is    *)
(* started in that step) and the listener stays in its accept loop.        *)
(* Violated: Thread.start() can raise for the accepted connection (207),   *)
(* the more so the more handler threads are alive; the connection then has *)
(* no handler and the except clause outside the loop (209) ends the        *)
(* listener, the defect of C17.                                            *)
(***************************************************************************)
C18_AcceptedGetsHandler ==
  [][\A c \in Conns :
       (pc[c] = "pending" /\ pc'[c] # "pending") =>
         (pc'[c] = "recv" /\ listener' = "listening")]_vars

(***************************************************************************)
(* C19 (SpecClose).  Handler termination and release: once the peer has    *)
(* closed, a running handler eventually closes its socket and ends (after  *)
(* the pending bytes, at end of stream, or earlier on an error of recv or  *)
(* of the processing of a line); a handler that has closed its socket and  *)
(* ended stays so: it closes once.                                         *)
(***************************************************************************)
HandlerRunning(c) == pc[c] \in {"recv", "loop", "append", "check", "pop"}

C19_HandlerTerminates ==
  /\ [][pc[1] = "closed" => pc'[1] = "closed"]_vars
  /\ (peerClosed[1] /\ HandlerRunning(1)) ~> (pc[1] = "closed")

\* the peer has closed after a valid line and a part of a line; the record
\* is stored, the part has been read and the handler has ended
C19_Witness ==
  /\ pc[1] = "closed"
  /\ peerClosed[1]
  /\ net[1] = <<>>
  /\ Len(appended) = 1
  /\ sent[1] = <<ObjLine(1), BadLine(2)>>

(***************************************************************************)
(* C20 (Spec).  Snapshot stability: the list a query has sliced, and the   *)
(* response made of it, hold the newest limit records of the list as it    *)
(* was at the slice, in that order and with those contents, whatever is    *)
(* appended or evicted afterwards; and every record in the list, at the    *)
(* slice or now, is as it was when it was appended.  (The queries of Spec  *)
(* have a limit >= 1 and no filter.)                                       *)
(***************************************************************************)
AsAppended(recs) ==
  \A i \in 1..Len(recs) : \E j \in 1..Len(appended) : recs[i] = appended[j]

C20_SnapshotStability ==
  /\ q.pc \in {"sliced", "done"} =>
       /\ q.logs = LastN(q.snap, q.limit)
       /\ AsAppended(q.logs)
  /\ AsAppended(received_logs)

\* after the slice of a full list a record was appended and the oldest one
\* evicted; the response holds the list as sliced, evicted record included
C20_Witness ==
  /\ q.pc = "done"
  /\ q.limit = MAX_LOGS + 1
  /\ Len(q.snap) = MAX_LOGS
  /\ Len(appended) > q.appendedAtSlice
  /\ Len(received_logs) = MAX_LOGS
  /\ received_logs[1] = q.snap[2]
  /\ q.logs = q.snap

(***************************************************************************)
(* C21 (SpecFifo).  total_count: the total a response reports is the       *)
(* number of records ever appended; evictions do not lower it, so it       *)
(* is at least the number of appends made before the query began.          *)
(* Violated: the total is len(received_logs) (143), the current length,    *)
(* which stays at MAX_LOGS once the list is full.                          *)
(***************************************************************************)
C21_TotalCountCumulative == q.pc = "done" => q.total >= q.appendedAtSlice

(***************************************************************************)
(* C22 (SpecBlank).  Blank lines are skipped.  The turn of the loop (the   *)
(* handler's step from the top of the loop) that takes an empty or         *)
(* one-space line off the buffer appends nothing,                          *)
(* leaves the list unchanged, leaves the rest of the buffer in place and   *)
(* goes on with the loop.  The handler is never closed, what is buffered   *)
(* and pending is always the unread end of the stream, and once every byte *)
(* is consumed the records appended are those of the {"a":k} lines, in     *)
(* order, the list holding the last MAX_LOGS of them.                      *)
(***************************************************************************)
\* the records of the {"a":i} lines connection 1 has sent, in order
ObjRecordsSent ==
  LET idx == SelectSeq([i \in 1..Len(sent[1]) |-> i],
                       LAMBDA i : sent[1][i] = ObjLine(i))
  IN [j \in 1..Len(idx) |-> ObjRecord(1, idx[j])]

\* the number of characters of the blank line at the head of buffer[1], with
\* its newline; 0 when there is none
BlankHead ==
  IF Len(buffer[1]) >= 1 /\ buffer[1][1] = "\n" THEN 1
  ELSE IF Len(buffer[1]) >= 2 /\ buffer[1][1] = " " /\ buffer[1][2] = "\n"
  THEN 2
  ELSE 0

C22_BlankState ==
  /\ pc[1] # "closed"
  /\ pc[1] \notin {"none", "pending"} =>
       IsSuffix(buffer[1] \o net[1], StreamText(sent[1]))
  /\ Quiescent(1) =>
       /\ buffer[1] = <<>>
       /\ appended = ObjRecordsSent
       /\ received_logs = LastN(ObjRecordsSent, MAX_LOGS)

C22_BlankLinesSkipped ==
  /\ []C22_BlankState
  /\ [][(pc[1] = "loop" /\ BlankHead > 0 /\ <<pc, buffer>>' # <<pc, buffer>>) =>
          /\ received_logs' = received_logs
          /\ appended' = appended
          /\ pc'[1] = "loop"
          /\ buffer'[1] = Drop(buffer[1], BlankHead)]_vars

\* an empty line, a one-space line and a valid line: all consumed, one
\* record stored
C22_Witness ==
  /\ sent[1] = <<EmptyLine, BlankLine, ObjLine(3)>>
  /\ Quiescent(1)
  /\ received_logs = <<ObjRecord(1, 3)>>

(***************************************************************************)
(* C23 (SpecStream).  Exactly-once append in order: whenever the handler   *)
(* is not inside its loop (it waits in recv or has ended), the records     *)
(* appended are the decodings of the valid lines received so far (the      *)
(* lines whose newline recv has returned), each once, in order.  Stated    *)
(* for streams of one-byte characters.                                     *)
(* Violated: a line of JSON that is no object ends the handler (C6), and   *)
(* the valid lines received after it in the same read are dropped.         *)
(***************************************************************************)
NewlineCount(s) == Len(SelectSeq(s, LAMBDA ch : ch = "\n"))

\* the lines of connection 1 that recv has returned in full
ReceivedLines == SubSeq(sent[1], 1, Len(sent[1]) - NewlineCount(net[1]))

\* the records, apart from received_at, of those of lines that decode to an
\* object
ValidRecordsOf(lines) ==
  LET valid == SelectSeq(lines,
                 LAMBDA line : /\ JsonLoads(Strip(Utf8Decode(line))).ok
                               /\ JsonLoads(Strip(Utf8Decode(line))).val[1] = "obj")
  IN [i \in 1..Len(valid) |-> SansTime(RecordOf(1, valid[i], 0))]

C23_ExactlyOnceInOrder ==
  (/\ pc[1] \in {"recv", "closed"}
   /\ \A i \in 1..Len(sent[1]) : sent[1][i] # UniLine(i)) =>
    SansTimes(appended) = ValidRecordsOf(ReceivedLines)

(***************************************************************************)
(* The marker store of src/asset map/src/py/app.py: the file MARKERS_CSV,  *)
(* the lock csv_lock and the functions behind /api/markers.                *)
(*                                                                         *)
(* A cell of the file is a sequence of characters; csv.writer and          *)
(* csv.DictReader quote and unquote a cell without changing it, so the     *)
(* file is the sequence of its data rows, a row being its four cells.  A   *)
(* Python int is <<"int", n>>; a float is <<"float", k>> for the float     *)
(* k / 10 (floats with one decimal place); a raised ValueError is          *)
(* <<"raise", "ValueError">>.                                              *)
(***************************************************************************)
\* the largest marker id of the files and the calls
MaxMarkerId == 2
\* the largest number of data rows of the initial file
MaxRows == 2

DecChars == <<"0", "1", "2", "3", "4", "5", "6", "7", "8", "9">>

\* str(n) of an int n >= 0
RECURSIVE StrInt(_)
StrInt(n) ==
  IF n < 10 THEN <<DecChars[n + 1]>>
  ELSE StrInt(n \div 10) \o <<DecChars[(n % 10) + 1]>>

IsDec(s) == s # <<>> /\ \A i \in 1..Len(s) : IndexOf(DecChars, s[i]) > 0

\* the number a sequence of decimal digits denotes
RECURSIVE DecNumber(_)
DecNumber(s) ==
  IF s = <<>> THEN 0
  ELSE 10 * DecNumber(SubSeq(s, 1, Len(s) - 1)) + IndexOf(DecChars, s[Len(s)]) - 1

ValueError == <<"raise", "ValueError">>

\* int(s) of a cell: decimal digits, anything else raises
PyInt(s) == IF IsDec(s) THEN <<"int", DecNumber(s)>> ELSE ValueError

\* float(s) of a cell: "d" and "d.d" literals, anything else raises
PyFloat(s) ==
  LET dot == IndexOf(s, ".")
  IN IF IsDec(s) THEN <<"float", 10 * DecNumber(s)>>
     ELSE IF dot > 1 /\ Len(s) = dot + 1 /\ IsDec(Take(s, dot - 1)) /\ IsDec(Drop(s, dot))
          THEN <<"float", 10 * DecNumber(Take(s, dot - 1)) + DecNumber(Drop(s, dot))>>
          ELSE ValueError

\* str(v) of an int, a float or None
PyStr(v) ==
  CASE v[1] = "int" -> StrInt(v[2])
    [] v[1] = "float" -> StrInt(v[2] \div 10) \o <<".">> \o StrInt(v[2] % 10)
    [] OTHER -> <<"N", "o", "n", "e">>

EmptyDict == <<"obj", <<>>>>

\* v or {}: None and the empty dict, list and string are false
OrEmptyDict(v) ==
  IF v[1] = "null" \/ (v[1] \in {"obj", "arr", "str"} /\ v[2] = <<>>)
  THEN EmptyDict ELSE v

\* app.py:87-91: json.loads(row.get("properties") or "{}"), {} on any error
ReadProperties(s) ==
  LET r == JsonLoads(IF s # <<>> THEN s ELSE <<"{", "}">>)
  IN IF r.ok THEN r.val ELSE EmptyDict

\* app.py:92-97: the marker of one row; an empty cell reads as None
ReadRow(row) ==
  [id |-> IF row.id # <<>> THEN PyInt(row.id) ELSE PyNone,
   lat |-> IF row.lat # <<>> THEN PyFloat(row.lat) ELSE PyNone,
   lng |-> IF row.lng # <<>> THEN PyFloat(row.lng) ELSE PyNone,
   properties |-> ReadProperties(row.properties)]

\* app.py:84-98: the markers of the file, or the ValueError of int or float
ReadMarkers(rows) ==
  IF \E i \in 1..Len(rows) :
       LET m == ReadRow(rows[i]) IN "raise" \in {m.id[1], m.lat[1], m.lng[1]}
  THEN [ok |-> FALSE, markers |-> <<>>]
  ELSE [ok |-> TRUE, markers |-> [i \in 1..Len(rows) |-> ReadRow(rows[i])]]

\* app.py:125-126, 159: the row written for a marker
WriteRow(m) ==
  [id |-> PyStr(m.id), lat |-> PyStr(m.lat), lng |-> PyStr(m.lng),
   properties |-> JsonDumps(OrEmptyDict(m.properties))]

\* app.py:121-126: the data rows _write_all_markers_to_csv writes
WriteRows(markers) == [i \in 1..Len(markers) |-> WriteRow(markers[i])]

\* app.py:58-61: _ensure_csv_exists creates a missing file with its header
EnsureCsv(f) == [exists |-> TRUE, rows |-> f.rows]

\* a key that the dict updated does not hold
Absent == <<"absent", <<>>>>

\* app.py:190-196: the fields of updated applied to the marker m
ApplyUpdate(m, updated) ==
  [id |-> m.id,
   lat |-> IF updated.lat \notin {Absent, PyNone} THEN updated.lat ELSE m.lat,
   lng |-> IF updated.lng \notin {Absent, PyNone} THEN updated.lng ELSE m.lng,
   properties |-> IF updated.properties # Absent
                  THEN OrEmptyDict(updated.properties) ELSE m.properties]

\* positions of the markers with the id marker_id
WithId(markers, marker_id) ==
  {i \in 1..Len(markers) : markers[i].id = <<"int", marker_id>>}

\* app.py:186-200: the first marker with the id is updated in the list
UpdateMarkers(markers, marker_id, updated) ==
  LET at == WithId(markers, marker_id)
  IN IF at = {} THEN [found |-> FALSE, markers |-> markers, m |-> PyNone]
     ELSE LET i == CHOOSE k \in at : \A j \in at : k <= j
              m == ApplyUpdate(markers[i], updated)
          IN [found |-> TRUE, markers |-> [markers EXCEPT ![i] = m], m |-> m]

\* app.py:222: the markers whose id is not marker_id
DeleteMarkers(markers, marker_id) ==
  SelectSeq(markers, LAMBDA m : m.id # <<"int", marker_id>>)

\* app.py:154-157: the largest id of the markers, 0 when there is none
RECURSIVE MaxId(_)
MaxId(markers) ==
  IF markers = <<>> THEN 0
  ELSE LET rest == MaxId(SubSeq(markers, 1, Len(markers) - 1))
           last == markers[Len(markers)].id
       IN IF last[1] = "int" /\ last[2] > rest THEN last[2] ELSE rest

\* app.py:81, called at 185, 221 and 276: a call enters
\* _read_markers_from_csv; _ensure_csv_exists runs before csv_lock is requested.
\* op is "get" (GET /api/markers, 264-277), "update" (PUT, 304-319 and
\* 166-185) or "delete" (DELETE, 325-336 and 205-221).
Call(t, op, marker_id, arg) ==
  /\ req[t].pc = "idle"
  /\ csv' = EnsureCsv(csv)
  /\ req' = [req EXCEPT ![t] = [ReqIdle EXCEPT !.pc = "read", !.op = op,
                                  !.marker_id = marker_id, !.arg = arg,
                                  !.before = csv.rows]]
  /\ UNCHANGED <<siemVars, csv_lock, mmVars>>

\* POST /api/markers, app.py:280-301 and 129-151: _append_marker_to_csv
\* up to its request of csv_lock
AppendCall(t, record) ==
  /\ req[t].pc = "idle"
  /\ csv' = EnsureCsv(csv)
  /\ req' = [req EXCEPT ![t] = [ReqIdle EXCEPT !.pc = "lock", !.op = "append",
                                  !.arg = record, !.before = csv.rows]]
  /\ UNCHANGED <<siemVars, csv_lock, mmVars>>

\* app.py:152-153: _append_marker_to_csv takes csv_lock, then calls
\* _read_markers_from_csv while it holds the lock
AppendAcquire(t) ==
  /\ req[t].pc = "lock"
  /\ csv_lock = 0
  /\ csv_lock' = t
  /\ req' = [req EXCEPT ![t].pc = "read"]
  /\ UNCHANGED <<siemVars, csv, mmVars>>

\* app.py:83-98: with csv_lock, the file is read; threading.Lock is not
\* reentrant, so the lock must be free, also for the thread that holds it.
\* What the caller does with the list until it next needs the file follows:
\* get returns it; update (186-200) and delete (222-225) change their copy
\* and return when they found nothing to change; append (154-163), which
\* holds csv_lock since 152, writes its row and releases the lock.
Read(t) ==
  /\ req[t].pc = "read"
  /\ csv_lock = 0
  /\ LET r == ReadMarkers(csv.rows)
         op == req[t].op
         u == UpdateMarkers(r.markers, req[t].marker_id, req[t].arg)
         d == DeleteMarkers(r.markers, req[t].marker_id)
         a == [id |-> IF req[t].arg.id = PyNone
                      THEN <<"int", MaxId(r.markers) + 1>> ELSE req[t].arg.id,
               lat |-> req[t].arg.lat,
               lng |-> req[t].arg.lng,
               properties |-> OrEmptyDict(req[t].arg.properties)]
     IN IF ~r.ok
        THEN /\ req' = [req EXCEPT ![t].pc = "raised", ![t].result = ValueError]
             /\ UNCHANGED csv
        ELSE CASE op = "get" ->
                    /\ req' = [req EXCEPT ![t].pc = "done",
                                          ![t].result = <<"markers", r.markers>>]
                    /\ UNCHANGED csv
               [] op = "update" ->
                    /\ req' = [req EXCEPT
                         ![t].pc = IF u.found THEN "write" ELSE "done",
                         ![t].markers = u.markers,
                         ![t].result = IF u.found THEN <<"marker", u.m>> ELSE PyNone]
                    /\ UNCHANGED csv
               [] op = "delete" ->
                    /\ req' = [req EXCEPT
                         ![t].pc = IF Len(d) = Len(r.markers) THEN "done" ELSE "write",
                         ![t].markers = d,
                         ![t].result = <<"bool", Len(d) # Len(r.markers)>>]
                    /\ UNCHANGED csv
               [] OTHER ->
                    /\ csv' = [csv EXCEPT !.rows = Append(csv.rows, WriteRow(a))]
                    /\ req' = [req EXCEPT ![t].pc = "done",
                                          ![t].result = <<"marker", a>>]
  /\ UNCHANGED <<siemVars, csv_lock, mmVars>>

\* app.py:101-126: _write_all_markers_to_csv rewrites the file with csv_lock
\* held, and the call returns (201-202, 226-227)
Write(t) ==
  /\ req[t].pc = "write"
  /\ csv_lock = 0
  /\ csv' = [exists |-> TRUE, rows |-> WriteRows(req[t].markers)]
  /\ req' = [req EXCEPT ![t].pc = "done"]
  /\ UNCHANGED <<siemVars, csv_lock, mmVars>>

\* the HTTP status of a finished request: 404 when update returned None or
\* delete False (app.py:320-321, 337-338), 500 for an exception (299-300)
StatusOf(r) ==
  IF r.pc = "raised" THEN 500
  ELSE IF r.op = "update" /\ r.result = PyNone THEN 404
  ELSE IF r.op = "delete" /\ r.result = <<"bool", FALSE>> THEN 404
  ELSE IF r.op = "delete" THEN 204
  ELSE 200
(***************************************************************************)
(* The files and the calls of the marker specifications.                   *)
(***************************************************************************)
\* a row as the program writes it: str() of the numbers, json.dumps
CanonRow(k) ==
  [id |-> StrInt(k), lat |-> <<"1", ".", "0">>, lng |-> <<"2", ".", "5">>,
   properties |-> <<"{", "\"", "a", "\"", ":", " ", Digit(k), "}">>]

\* a row typed by hand: an integer literal, JSON without the space
HandRow(k) ==
  [id |-> StrInt(k), lat |-> <<"1">>, lng |-> <<"2", ".", "5">>,
   properties |-> ObjLine(k)]

\* a row whose properties are not JSON
BrokenRow ==
  [id |-> StrInt(1), lat |-> <<"2", ".", "5">>, lng |-> <<"1", ".", "0">>,
   properties |-> BadLine(1)]

\* a row with an empty id cell and an empty properties cell
NoIdRow ==
  [id |-> <<>>, lat |-> <<"2", ".", "5">>, lng |-> <<"2", ".", "5">>,
   properties |-> <<>>]

SampleRows ==
  {CanonRow(k) : k \in 1..MaxMarkerId} \cup {HandRow(k) : k \in 1..MaxMarkerId}
    \cup {BrokenRow, NoIdRow}

Files == UNION {[1..n -> SampleRows] : n \in 0..MaxRows}

\* the dicts passed as updated: {"lat": 3.0}; what put_marker passes
\* (app.py:318) for a body with all three fields and for one whose properties
\* are null; a dict whose lat is None
Updates ==
  {[lat |-> <<"float", 30>>, lng |-> Absent, properties |-> Absent],
   [lat |-> <<"float", 30>>, lng |-> <<"float", 40>>,
    properties |-> <<"obj", <<<<<<"b">>, <<"num", <<"7">>>>>>>>>>],
   [lat |-> <<"float", 30>>, lng |-> <<"float", 40>>, properties |-> PyNone],
   [lat |-> PyNone, lng |-> <<"float", 40>>, properties |-> Absent]}

\* marker.dict() of a POST body (app.py:298), without and with an id
Records ==
  {[id |-> PyNone, lat |-> <<"float", 30>>, lng |-> <<"float", 40>>,
    properties |-> PyNone],
   [id |-> <<"int", MaxMarkerId + 1>>, lat |-> <<"float", 30>>,
    lng |-> <<"float", 40>>, properties |-> EmptyDict]}

(***************************************************************************)
(* SpecMarkerSeq: one request makes one call on a file of up to MaxRows    *)
(* rows, which may not exist yet.                                          *)
(***************************************************************************)
InitMarkerSeq ==
  /\ SiemInit
  /\ csv \in {[exists |-> FALSE, rows |-> <<>>]}
               \cup {[exists |-> TRUE, rows |-> f] : f \in Files}
  /\ csv_lock = 0
  /\ req = [t \in Callers |-> ReqIdle]
  /\ MindMapIdle

NextMarkerSeq ==
  \/ Call(1, "get", 0, PyNone)
  \/ \E record \in Records : AppendCall(1, record)
  \/ AppendAcquire(1)
  \/ \E marker_id \in 1..MaxMarkerId : \E updated \in Updates :
       Call(1, "update", marker_id, updated)
  \/ \E marker_id \in 1..MaxMarkerId : Call(1, "delete", marker_id, PyNone)
  \/ Read(1)
  \/ Write(1)

SpecMarkerSeq == InitMarkerSeq /\ [][NextMarkerSeq]_vars

(***************************************************************************)
(* SpecMarkers: two requests to one server process, one call each, on the   *)
(* file with one written row per marker id.  The routes are coroutines     *)
(* without an await (async def, 264-340) and uvicorn.run (347) serves them *)
(* on one event loop: a route starts only when no other route is running,  *)
(* and runs to its end; a route blocked on csv_lock blocks the loop.       *)
(***************************************************************************)
InitMarkers ==
  /\ SiemInit
  /\ csv = [exists |-> TRUE, rows |-> [k \in 1..MaxMarkerId |-> CanonRow(k)]]
  /\ csv_lock = 0
  /\ req = [t \in Callers |-> ReqIdle]
  /\ MindMapIdle

\* faulty variant: the routes are declared def, which FastAPI runs on the
\* threads of a pool, so that the steps of two calls interleave
NextMarkersThreaded ==
  \/ \E t \in Callers : Call(t, "get", 0, PyNone)
  \/ \E t \in Callers : \E record \in Records : AppendCall(t, record)
  \/ \E t \in Callers : AppendAcquire(t)
  \/ \E t \in Callers : \E marker_id \in 1..MaxMarkerId : \E updated \in Updates :
       Call(t, "update", marker_id, updated)
  \/ \E t \in Callers : \E marker_id \in 1..MaxMarkerId :
       Call(t, "delete", marker_id, PyNone)
  \/ \E t \in Callers : Read(t)
  \/ \E t \in Callers : Write(t)

NextMarkers ==
  \/ \E t \in Callers :
       /\ \A u \in Callers : req[u].pc \in {"idle", "done", "raised"}
       /\ Call(t, "get", 0, PyNone)
  \/ \E t \in Callers : \E record \in Records :
       /\ \A u \in Callers : req[u].pc \in {"idle", "done", "raised"}
       /\ AppendCall(t, record)
  \/ \E t \in Callers : AppendAcquire(t)
  \/ \E t \in Callers : \E marker_id \in 1..MaxMarkerId : \E updated \in Updates :
       /\ \A u \in Callers : req[u].pc \in {"idle", "done", "raised"}
       /\ Call(t, "update", marker_id, updated)
  \/ \E t \in Callers : \E marker_id \in 1..MaxMarkerId :
       /\ \A u \in Callers : req[u].pc \in {"idle", "done", "raised"}
       /\ Call(t, "delete", marker_id, PyNone)
  \/ \E t \in Callers : Read(t)
  \/ \E t \in Callers : Write(t)

SpecMarkers == InitMarkers /\ [][NextMarkers]_vars

\* C24: every call of _append_marker_to_csv terminates with its row appended
\* and never blocks forever on csv_lock; in particular no thread waits for
\* csv_lock while it holds csv_lock itself.
C24_AppendCompletes ==
  \A t \in Callers :
    ~(req[t].op = "append" /\ req[t].pc = "read" /\ csv_lock = t)

\* C25: a finished _update_marker_in_csv returned None and left the rows as
\* they were when no marker had the id; otherwise the file reads as the
\* previous markers with only the supplied fields of the first marker with
\* the id changed, and that marker was returned.
C25_MarkerUpdate ==
  \A t \in Callers :
    (req[t].op = "update" /\ req[t].pc = "done") =>
      LET before == ReadMarkers(req[t].before).markers
          at == WithId(before, req[t].marker_id)
      IN IF at = {}
         THEN req[t].result = PyNone /\ csv.rows = req[t].before
         ELSE LET i == CHOOSE k \in at : \A j \in at : k <= j
                  expected == [before EXCEPT ![i] = ApplyUpdate(before[i], req[t].arg)]
              IN /\ ReadMarkers(csv.rows) = [ok |-> TRUE, markers |-> expected]
                 /\ req[t].result = <<"marker", expected[i]>>

\* C26: a finished _delete_marker_in_csv returned True exactly when a marker
\* had the id, and the file then reads as the previous markers without those
\* with the id, in their order; when none had the id the answer is 404 and
\* the rows are as they were.
C26_MarkerDelete ==
  \A t \in Callers :
    (req[t].op = "delete" /\ req[t].pc = "done") =>
      LET before == ReadMarkers(req[t].before).markers
          at == WithId(before, req[t].marker_id)
          kept == SelectSeq([i \in 1..Len(before) |-> i], LAMBDA i : i \notin at)
      IN /\ req[t].result = <<"bool", at # {}>>
         /\ IF at = {}
            THEN StatusOf(req[t]) = 404 /\ csv.rows = req[t].before
            ELSE ReadMarkers(csv.rows) =
                   [ok |-> TRUE, markers |-> [j \in 1..Len(kept) |-> before[kept[j]]]]
\* C29 as stated: csv_lock serialises the read-modify-rewrite of an update
\* or delete, that is, a call that has read the markers and has not yet
\* rewritten the file holds csv_lock.
\* Violated: the lock is held inside _read_markers_from_csv (83-97) and
\* inside _write_all_markers_to_csv (120-126) only, and is free in between.
C29_LockSerialises ==
  \A t \in Callers :
    (req[t].op \in {"update", "delete"} /\ req[t].pc = "write") => csv_lock = t

\* the file reflects the finished call of request t: a deleted id has no
\* row, an updated marker is in the file as it was returned
Reflected(t) ==
  IF req[t].op = "delete"
  THEN \A i \in 1..Len(csv.rows) : csv.rows[i].id # StrInt(req[t].marker_id)
  ELSE \E i \in 1..Len(csv.rows) : ReadRow(csv.rows[i]) = req[t].result[2]

\* C29, amended: when two requests to one server process have finished
\* _update_marker_in_csv or _delete_marker_in_csv calls on different marker
\* ids, the file reflects both (the event loop runs them one after the
\* other; csv_lock is free between a call's read and its rewrite).
C29_NoLostUpdate ==
  (/\ \A t \in Callers : req[t].pc = "done" /\ req[t].op \in {"update", "delete"}
   /\ req[1].marker_id # req[2].marker_id) =>
     \A t \in Callers : Reflected(t)

\* request 1 has updated marker 1, then request 2 has deleted marker 2, which
\* it found: the file has the updated row only
C29_Witness ==
  /\ \A t \in Callers : req[t].pc = "done"
  /\ req[1].op = "update" /\ req[1].marker_id = 1
  /\ req[2].op = "delete" /\ req[2].marker_id = 2
  /\ req[2].before # <<>> /\ req[2].result = <<"bool", TRUE>>
  /\ Len(csv.rows) = MaxMarkerId - 1
  /\ \A t \in Callers : Reflected(t)

\* C27: every finished query reports returned <= total, whatever the limit
\* and however the query interleaves with the handlers' appends and
\* evictions.
C27_ReturnedAtMostTotal == q.pc = "done" => q.returned <= q.total
(***************************************************************************)
(* SpecTail: one forwarder sends {"a":k} lines and ends the stream with or *)
(* without an unterminated segment: a complete object, the beginning of    *)
(* one, or a space.  Reads return any number of the pending bytes.         *)
(***************************************************************************)
TailSegments(k) == {ObjLine(k), Take(ObjLine(k), 4), BlankLine}

NextTail ==
  \/ Connect(1)
  \/ Accept(1)
  \/ Send(1, ObjLine(Len(sent[1]) + 1), MAX_LOGS + 1)
  \/ \E segment \in TailSegments(Len(sent[1]) + 1) : SendTail(1, segment)
  \/ PeerClose(1)
  \/ StreamRecv
  \/ RecvEof(1)
  \/ ProcessLine(1)
  \/ AppendEntry(1)
  \/ CheckLimit(1)
  \/ Pop(1)

SpecTail == Init /\ [][NextTail]_vars

\* C28 (SpecTail).  Bytes that no newline follows never become a record:
\* the appended records are always those of the first newline-terminated
\* lines, in order, and when the handler has ended at end-of-stream they
\* are those of all the terminated lines, the unterminated segment being
\* still in the buffer that ends with the thread.
C28_TailDiscarded ==
  /\ Len(appended) <= Len(sent[1])
  /\ appended = [i \in 1..Len(appended) |-> ObjRecord(1, i)]
  /\ pc[1] = "closed" =>
       /\ peerClosed[1] /\ net[1] = <<>>
       /\ Len(appended) = Len(sent[1])
       /\ received_logs = LastN(appended, MAX_LOGS)
       /\ buffer[1] \in {<<>>} \cup TailSegments(Len(sent[1]) + 1)

C28_Witness ==
  /\ pc[1] = "closed"
  /\ sent[1] = <<ObjLine(1)>>
  /\ buffer[1] = ObjLine(2)
  /\ received_logs = <<ObjRecord(1, 1)>>
(***************************************************************************)
(* The mind map application of src/mind-map-app/mind_map.py: the map       *)
(* (MindMap.nodes, MindMap.connections) and the selection and connect-mode *)
(* state of MindMapApp, changed by the handlers of the GUI events.  A node *)
(* id (a uuid4 string) is a number from 1; 0 stands for None.  nodes is    *)
(* the set of keys of the dict; connections is the list of [from, to].     *)
(***************************************************************************)
\* the number of nodes the user creates
MaxNodes == 3

\* mind_map.py:48-49, 294-310: _add_node adds a node with a fresh uuid4 id
AddNode ==
  /\ created < MaxNodes
  /\ created' = created + 1
  /\ mind_map' = [mind_map EXCEPT !.nodes = @ \cup {created + 1}]
  /\ UNCHANGED <<siemVars, mkVars, selected_node_id, connecting_mode,
                 connection_start_id, plain>>

\* mind_map.py:51-58: MindMap.remove_node
RemoveNode(m, node_id) ==
  IF node_id \in m.nodes
  THEN [nodes |-> m.nodes \ {node_id},
        connections |-> SelectSeq(m.connections,
                          LAMBDA conn : conn[1] # node_id /\ conn[2] # node_id)]
  ELSE m

\* mind_map.py:60-62: MindMap.add_connection
AddConnection(m, from_id, to_id) ==
  IF \A i \in 1..Len(m.connections) :
       m.connections[i] \notin {<<from_id, to_id>>, <<to_id, from_id>>}
  THEN [m EXCEPT !.connections = Append(@, <<from_id, to_id>>)]
  ELSE m

\* mind_map.py:77-83, 110-113: MindMap.from_dict on the data json.load read;
\* a key the file lacks gets its default, and nothing is checked: neither
\* that the ends of a connection are nodes, nor that they differ, nor that
\* a pair is there once
FromDict(data) ==
  [nodes |-> IF data.nodes[1] = "absent" THEN {} ELSE data.nodes[2],
   connections |-> IF data.connections[1] = "absent" THEN <<>>
                   ELSE data.connections[2]]

\* the files the user may have in ~/.mindmaps, the autosave file among them:
\* {}, a map this program saved (two nodes and their connection), and maps
\* written by hand: a connection to an id that is no node with a
\* connection of a node to itself, and one pair in both directions
MapFiles ==
  {[nodes |-> <<"absent", {}>>, connections |-> <<"absent", <<>>>>],
   [nodes |-> <<"dict", {1, 2}>>, connections |-> <<"list", << <<1, 2>> >> >>],
   [nodes |-> <<"dict", {1}>>,
    connections |-> <<"list", << <<1, 2>>, <<1, 1>> >> >>],
   [nodes |-> <<"dict", {1, 2}>>,
    connections |-> <<"list", << <<1, 2>>, <<2, 1>> >> >>]}

\* the ids a map mentions; uuid4 draws none of them again
IdsOf(m) ==
  m.nodes \cup {m.connections[i][1] : i \in 1..Len(m.connections)}
          \cup {m.connections[i][2] : i \in 1..Len(m.connections)}

(***************************************************************************)
(* mind_map.py:143-167, 730-739: MindMapApp.__init__.  The map is empty    *)
(* (148) and stays so without an autosave file; with one, _load_autosave   *)
(* (167) replaces it by what the file holds.  Nothing is selected and      *)
(* connect mode is off (153-157).  The receiver and the marker store are   *)
(* other processes, in their initial states.                               *)
(***************************************************************************)
MindMapInit ==
  /\ SiemInit
  /\ MarkersIdle
  /\ mind_map \in {[nodes |-> {}, connections |-> <<>>]}
                    \cup {FromDict(data) : data \in MapFiles}
  /\ selected_node_id = 0
  /\ connecting_mode = FALSE
  /\ connection_start_id = 0
  /\ created = CHOOSE n \in IdsOf(mind_map) \cup {0} :
                 \A id \in IdsOf(mind_map) \cup {0} : id <= n
  /\ plain = (mind_map = [nodes |-> {}, connections |-> <<>>])

\* mind_map.py:482-504: a left click at node_id, which is what _get_node_at
\* (374-382) returns: a node drawn on the canvas, or None for empty space
OnClick(node_id) ==
  /\ node_id \in mind_map.nodes \cup {0}
  /\ IF connecting_mode
     THEN IF node_id # 0 /\ connection_start_id = 0
          THEN /\ connection_start_id' = node_id
               /\ UNCHANGED <<mind_map, connecting_mode, selected_node_id>>
          ELSE IF node_id # 0 /\ node_id # connection_start_id
          THEN /\ mind_map' = AddConnection(mind_map, connection_start_id, node_id)
               /\ connecting_mode' = FALSE
               /\ connection_start_id' = 0
               /\ UNCHANGED selected_node_id
          ELSE UNCHANGED <<mind_map, connecting_mode, connection_start_id,
                           selected_node_id>>
     ELSE /\ selected_node_id' = node_id
          /\ UNCHANGED <<mind_map, connecting_mode, connection_start_id>>
  /\ UNCHANGED <<siemVars, mkVars, created, plain>>

\* mind_map.py:532-538: a right click on a node selects it and opens the menu
OnRightClick(node_id) ==
  /\ node_id \in mind_map.nodes
  /\ selected_node_id' = node_id
  /\ UNCHANGED <<siemVars, mkVars, mind_map, connecting_mode,
                 connection_start_id, created, plain>>

\* mind_map.py:432-441: the Connect button
ToggleConnectMode ==
  /\ connecting_mode' = ~connecting_mode
  /\ connection_start_id' = 0
  /\ UNCHANGED <<siemVars, mkVars, mind_map, selected_node_id, created, plain>>

\* mind_map.py:443-449: Escape
CancelConnectMode ==
  /\ connecting_mode' = FALSE
  /\ connection_start_id' = 0
  /\ UNCHANGED <<siemVars, mkVars, mind_map, selected_node_id, created, plain>>

\* mind_map.py:620-628: "Connect To..." of the context menu.  With a
\* selection that is no node of the map (after New or Open) line 625 raises
\* KeyError, after the two assignments of 623-624
StartConnectionFromSelected ==
  /\ selected_node_id # 0
  /\ connecting_mode' = TRUE
  /\ connection_start_id' = selected_node_id
  /\ UNCHANGED <<siemVars, mkVars, mind_map, selected_node_id, created, plain>>

\* mind_map.py:583-604: the Delete key, "Delete" of the menu and the toolbar
DeleteSelected ==
  /\ selected_node_id # 0
  /\ mind_map' = RemoveNode(mind_map, selected_node_id)
  /\ selected_node_id' = 0
  /\ UNCHANGED <<siemVars, mkVars, connecting_mode, connection_start_id,
                 created, plain>>

\* mind_map.py:672-684: File/New, Ctrl-n, with the question answered yes and
\* a name given: a new empty map; the selection and connect mode stay
NewMap ==
  /\ mind_map' = [nodes |-> {}, connections |-> <<>>]
  /\ plain' = FALSE
  /\ UNCHANGED <<siemVars, mkVars, selected_node_id, connecting_mode,
                 connection_start_id, created>>

\* mind_map.py:707-721: File/Open, Ctrl-o, with a file chosen that loads: the
\* map is replaced by the file's; the selection and connect mode stay.  The
\* ids of the file are those of MapFiles moved by base: by 0 for a file
\* with ids of this session (a map saved from it), by created for a file
\* whose ids are all foreign to it (while ids are left: base <= MaxNodes)
OpenMap(data, foreign) ==
  LET m == FromDict(data)
      base == IF foreign THEN created ELSE 0
      loaded == [nodes |-> {id + base : id \in m.nodes},
                 connections |-> [i \in 1..Len(m.connections) |->
                                    <<m.connections[i][1] + base,
                                      m.connections[i][2] + base>>]]
  IN /\ base <= MaxNodes
     /\ mind_map' = loaded
     /\ created' = CHOOSE n \in IdsOf(loaded) \cup {created} :
                     \A id \in IdsOf(loaded) \cup {created} : id <= n
     /\ plain' = FALSE
     /\ UNCHANGED <<siemVars, mkVars, selected_node_id, connecting_mode,
                    connection_start_id>>

\* mind_map.py:64-68: MindMap.remove_connection, a public method of the map
\* that no handler of the window calls: a call made on app.mind_map by code
\* that uses the class.  list.remove takes out the first equal entry; the
\* pair is looked for as given, then reversed.
RemoveConnection(from_id, to_id) ==
  LET conns == mind_map.connections
      at(pair) == {i \in 1..Len(conns) : conns[i] = pair}
      without(i) == SubSeq(conns, 1, i - 1) \o SubSeq(conns, i + 1, Len(conns))
      first(set) == CHOOSE i \in set : \A j \in set : i <= j
  IN /\ mind_map' =
          IF at(<<from_id, to_id>>) # {}
          THEN [mind_map EXCEPT
                  !.connections = without(first(at(<<from_id, to_id>>)))]
          ELSE IF at(<<to_id, from_id>>) # {}
          THEN [mind_map EXCEPT
                  !.connections = without(first(at(<<to_id, from_id>>)))]
          ELSE mind_map
     /\ plain' = FALSE
     /\ UNCHANGED <<siemVars, mkVars, selected_node_id, connecting_mode,
                    connection_start_id, created>>

(***************************************************************************)
(* SpecMindMap: the user's actions and calls of remove_connection in any   *)
(* order, from a start with or without an autosave file.                   *)
(***************************************************************************)
NextMindMap ==
  \/ AddNode
  \/ \E node_id \in 0..(MaxNodes + 2) : OnClick(node_id)
  \/ \E node_id \in 1..(MaxNodes + 2) : OnRightClick(node_id)
  \/ ToggleConnectMode
  \/ CancelConnectMode
  \/ StartConnectionFromSelected
  \/ DeleteSelected
  \/ NewMap
  \/ \E data \in MapFiles : \E foreign \in BOOLEAN : OpenMap(data, foreign)
  \/ \E from_id, to_id \in 1..(MaxNodes + 2) : RemoveConnection(from_id, to_id)

SpecMindMap == MindMapInit /\ [][NextMindMap]_vars

\* C30: in a session that started with an empty map and has used only the
\* listed actions (no New, no Open, no remove_connection), every connection
\* joins two distinct nodes that are both in mind_map.nodes, and no
\* unordered pair of nodes is connected twice.
C30_ConnectionIntegrity ==
  plain =>
    LET conns == mind_map.connections
    IN /\ \A i \in 1..Len(conns) :
            /\ conns[i][1] # conns[i][2]
            /\ conns[i][1] \in mind_map.nodes
            /\ conns[i][2] \in mind_map.nodes
       /\ \A i, j \in 1..Len(conns) :
            i # j => {conns[i][1], conns[i][2]} # {conns[j][1], conns[j][2]}
=============================================================================
